---- MODULE Spec2Model ----
(***************************************************************************)
(* Pulse-wave trading bot: the live polling loop and leverage strategy     *)
(* (strategy.ts, leverage variant), the byte-offset binary search over the *)
(* price file (utils/utils.ts) and the bar-by-bar backtest (backtester.ts).*)
(*                                                                         *)
(* Numbers.  Indicator values, thresholds and offsets are fixed-point      *)
(* integers in the indicator's own unit (hundredths for CPI/GDP/FOMC,      *)
(* units for NFP); prices of bars are integer cents; price levels derived  *)
(* by a percentage are kept exactly in units of 1/10000 cent ("E4").       *)
(***************************************************************************)
EXTENDS Integers, Sequences, FiniteSets, TLC

VARIABLES
    mode,               \* which entry point runs: "live", "band", "backtest", "adapter", "push"
    \* ---- launchAlgorithm (live loop) ----
    cfg,                \* configuration of the run (config.ts / .env)
    lpc,                \* launchAlgorithm: "start", "polling", "exited"
    proxies,            \* number of proxies returned by getProxies
    strategy_executed,  \* the closure flag of launchAlgorithm
    timerActive,        \* intervalId is scheduled (not cleared)
    proxyIndex,         \* round-robin index
    ticks,              \* timer callbacks started so far
    inflight,           \* ticks suspended at `await checkValueFunction`
    fetchLog,           \* proxy handed to checkValueFunction, per fetch
    execCount,          \* invocations of executeStrategyFunction
    nonNull,            \* fetches that have returned a non-null value
    unhandled,          \* tick promises rejected with nobody to catch them
    \* ---- executeTradingStrategy ----
    spc,                \* "idle","init","open","tp","sl","done","threw"
    strat,              \* locals: value, leverage, proxy
    position,           \* ret.data.position of the open call
    calls,              \* broker calls issued, in order
    \* ---- backtest ----
    file,               \* the price file
    evCount,            \* events consumed by the for-loop
    results,            \* Result[] accumulated by backtest
    saved,              \* text of data/backtest_results.json once written
    reread,             \* Result[] parsed back from that file
    log,                \* per-event record of what the iteration did
    \* ---- a single call of a broker adapter operation ----
    call,               \* the operation and the replies of its HTTP steps
    ret,                \* what the operation returned
    requests,           \* the HTTP requests it made, in order
    \* ---- the fixed-band variant of the live loop ("band") ----
    runs,               \* invocations of executeStrategyFunction, in order
    \* ---- the price-push handler, quantfuryAttackStrategy.ts ("push") ----
    NO_TRADING,         \* config.ts NO_TRADING
    lastPrice,          \* module variable lastPrice
    currentPrice,       \* module variable currentPrice
    lastOperation,      \* module variable lastOperation
    operationCompleted, \* module variable operationCompleted
    operationInProgress,\* module variable operationInProgress
    pending,            \* the handlePrice call suspended at `await executeTradingOperation`
    responses,          \* what res.send sent, in order
    opCalls,            \* invocations of executeTradingOperation
    opens               \* calls of openExtendedMarket(Long|Short)Position

\* the results file before main wrote it, the results before they are read
NotWritten == [written |-> FALSE, text |-> <<>>]
NotRead == [read |-> FALSE, results |-> <<>>]

\* a request body or a module variable holding null
NullPrice == [isNull |-> TRUE, id |-> "", shortName |-> "", price |-> 0]
NotPending == [active |-> FALSE, operationType |-> "none", openPrice |-> 0]

\* lines 37-41: the module variables of quantfuryAttackStrategy.ts as
\* initialised
pushIdle ==
    /\ NO_TRADING = FALSE
    /\ lastPrice = NullPrice /\ currentPrice = NullPrice /\ lastOperation = "null"
    /\ operationCompleted = FALSE /\ operationInProgress = FALSE
    /\ pending = NotPending /\ responses = <<>> /\ opCalls = 0 /\ opens = 0

liveVars == <<cfg, lpc, proxies, strategy_executed, timerActive, proxyIndex, ticks,
              inflight, fetchLog, execCount, nonNull, unhandled, spc, strat, position,
              calls>>
btVars == <<file, evCount, results, log, saved, reread>>
adapterVars == <<call, ret, requests>>
bandVars == <<runs>>
pushVars == <<NO_TRADING, lastPrice, currentPrice, lastOperation, operationCompleted,
              operationInProgress, pending, responses, opCalls, opens>>
vars == <<mode, cfg, lpc, proxies, strategy_executed, timerActive, proxyIndex, ticks,
          inflight, fetchLog, execCount, nonNull, unhandled, spc, strat, position,
          calls, file, evCount, results, log, saved, reread, call, ret, requests, runs,
          NO_TRADING, lastPrice, currentPrice, lastOperation, operationCompleted,
          operationInProgress, pending, responses, opCalls, opens>>

(***************************************************************************)
(* Bounds of the model.                                                    *)
(***************************************************************************)
MaxTicks == 3
MaxProxies == 2
MaxEvents == 2
MaxBars == 2
MaxBandTicks == 2
MaxSearchSteps == 8
MaxRequests == 3

(***************************************************************************)
(* Arithmetic helpers (Math.sign, Math.abs, Math.floor of a quotient).     *)
(***************************************************************************)
Sign(x) == IF x > 0 THEN 1 ELSE IF x < 0 THEN -1 ELSE 0

Abs(x) == IF x < 0 THEN -x ELSE x

\* Math.floor(a / b) for b > 0, a any integer
FloorDiv(a, b) == a \div b

\* Math.sign(q) * Math.floor(Math.abs(q)) for q = num / den, den # 0
TruncQuot(num, den) == Sign(num) * Sign(den) * (Abs(num) \div Abs(den))

(***************************************************************************)
(* JavaScript numbers of the fixed-band strategies.  Thresholds, bands and  *)
(* scraped values are decimals with one fractional digit; k stands for      *)
(* k/10.  Number("0.7") is the IEEE-754 double nearest to 0.7, and + and -  *)
(* round their exact result to the nearest double (ties to even).  A double *)
(* near k/10 is the pair [k, E]: its exact value is k/10 + E/(10 * 2^56).   *)
(***************************************************************************)
RECURSIVE Pow2(_)
Pow2(n) == IF n = 0 THEN 1 ELSE 2 * Pow2(n - 1)

\* the e with 2^e <= k/10 < 2^(e+1), for 1 <= k < 320
binade(k) ==
    CHOOSE e \in -4..4 : 10 * Pow2(e + 4) <= 16 * k /\ 16 * k < 20 * Pow2(e + 4)

\* a double in that binade is a multiple of 2^-precision(k)
precision(k) == 52 - binade(k)

\* 2^p mod 10 and 2^p mod 20, for p >= 2
pow2mod10(p) == IF p % 4 = 1 THEN 2 ELSE IF p % 4 = 2 THEN 4 ELSE IF p % 4 = 3 THEN 8 ELSE 6

pow2mod20(p) == IF p % 4 = 1 THEN 12 ELSE IF p % 4 = 2 THEN 4 ELSE IF p % 4 = 3 THEN 8 ELSE 16

\* k/10 is a power of two
isPow2Tenths(k) == k \in {5, 10, 20, 40, 80, 160}

\* round-to-nearest-even of (M + R / (10 * D)) units, M of parity Mpar, given
\* as the error against k/10: q is (k * 2^p) mod 10 and D is 2^(56 - p)
roundNearestEven(D, q, R, Mpar, n0) ==
    IF 2 * (R - n0 * 10 * D) > 10 * D
         \/ (2 * (R - n0 * 10 * D) = 10 * D /\ (Mpar + n0) % 2 = 1)
    THEN 10 * D * (n0 + 1) - D * q
    ELSE 10 * D * n0 - D * q

roundAt(K, Ee, ps, D, q) ==
    [k |-> K,
     E |-> roundNearestEven(D, q, D * q + Ee,
                            ((((K * pow2mod20(ps)) % 20) - q) \div 10) % 2,
                            FloorDiv(D * q + Ee, 10 * D))]

\* the double nearest to the exact number K/10 + Ee/(10 * 2^56), K >= 1
roundToDouble(K, Ee, ps) ==
    roundAt(K, Ee, ps, Pow2(56 - ps), (K * pow2mod10(ps)) % 10)

\* Number("k/10"), parseFloat("k/10")
toDouble(k) == roundToDouble(k, 0, precision(k))

\* a + b and a - b on doubles
fadd(a, b) ==
    roundToDouble(a.k + b.k, a.E + b.E,
                  precision(a.k + b.k)
                     + (IF isPow2Tenths(a.k + b.k) /\ a.E + b.E < 0 THEN 1 ELSE 0))

fsub(a, b) ==
    roundToDouble(a.k - b.k, a.E - b.E,
                  precision(a.k - b.k)
                     + (IF isPow2Tenths(a.k - b.k) /\ a.E - b.E < 0 THEN 1 ELSE 0))

\* a > b on doubles
fgt(a, b) == a.k > b.k \/ (a.k = b.k /\ a.E > b.E)

(***************************************************************************)
(* LeverageDecision: strategy.ts executeTradingStrategy lines 168-176 and  *)
(* backtester.ts lines 790-798 (same statements in both).                  *)
(***************************************************************************)
\* Math.round in place of sign * floor(abs)
rawLeverageRounded(value, threshold, offset) ==
    Sign(value - threshold) * Sign(offset) *
        ((2 * Abs(value - threshold) + Abs(offset)) \div (2 * Abs(offset)))

rawLeverage(value, threshold, offset) == TruncQuot(value - threshold, offset)

max_leverage(maxAmount, amount) == FloorDiv(maxAmount, amount)

clampNoUpper(lev, maxLev) == IF (-maxLev) > lev THEN -maxLev ELSE lev

clampLeverage(lev, maxLev) ==
    LET l1 == IF lev > maxLev THEN maxLev ELSE lev
    IN  IF (-maxLev) > l1 THEN -maxLev ELSE l1

flipNever(direction, lev) == lev

flipDirection(direction, lev) == IF ~direction THEN -lev ELSE lev

computeLeverage(value, threshold, offset, direction, amount, maxAmount) ==
    flipDirection(direction,
        clampLeverage(rawLeverage(value, threshold, offset),
                      max_leverage(maxAmount, amount)))

\* a dead zone that leaves out zero
deadZoneOpen(lev) == lev > 0 /\ lev < 1

deadZone(lev) == lev > -1 /\ lev < 1

(***************************************************************************)
(* Configuration of a live run.  config.ts reads these from the            *)
(* environment; the README's .env gives AMOUNT=100, STOP_LOSS=0.003,       *)
(* TAKE_PROFIT=0.01, STRATEGY_PROXY_INDEX=0; backtester.ts uses            *)
(* AMOUNT=200000, MAX_AMOUNT=1000000.  Percentages are in 1/10000.         *)
(***************************************************************************)
STRATEGY_PROXY_INDEX == 0
STOP_LOSS_E4 == 30
TAKE_PROFIT_E4 == 100

\* The indicator strategies: the five wrappers pass direction = false;
\* "DIR" is executeTradingStrategy called with direction = true and "NEG"
\* a configuration with a negative offset.
Indicators ==
    { [name |-> "GDP", direction |-> FALSE, threshold |-> 130, offset |-> 20],
      [name |-> "NFP", direction |-> FALSE, threshold |-> 180000, offset |-> 15000],
      [name |-> "CPI", direction |-> FALSE, threshold |-> 30, offset |-> 2],
      [name |-> "DIR", direction |-> TRUE, threshold |-> 130, offset |-> 20],
      [name |-> "NEG", direction |-> FALSE, threshold |-> 30, offset |-> -2] }

\* Values checkValueFunction may scrape, per indicator
ValuesOf(ind) ==
    IF ind.name = "NFP"
    THEN {100000, 165000, 165001, 180000, 194999, 195000, 300000}
    ELSE IF ind.name \in {"GDP", "DIR"}
    THEN {-100, 110, 111, 130, 135, 150, 350}
    ELSE {10, 28, 29, 30, 31, 32, 50}

Amounts ==
    { [AMOUNT |-> 200000, MAX_AMOUNT |-> 1000000],
      [AMOUNT |-> 100, MAX_AMOUNT |-> 250],
      [AMOUNT |-> 100, MAX_AMOUNT |-> 50] }

Configs ==
    [ ind : Indicators, amt : Amounts,
      NO_PROXY : BOOLEAN, NO_RECURRENT_FETCH : BOOLEAN ]

\* JavaScript values that are not numbers of the model
NaN == -1
null == 0
undefined == -2

\* proxies[i] is identified by i + 1; an index outside the array (or NaN)
\* reads undefined
proxyAt(i, n) == IF i >= 0 /\ i < n THEN i + 1 ELSE undefined

\* a variant that never advances the index
nextProxyIndexStuck(i, n) == IF n = 0 \/ i = NaN THEN NaN ELSE i

\* (proxyIndex + 1) % proxies.length; x % 0 is NaN in JavaScript
nextProxyIndex(i, n) == IF n = 0 \/ i = NaN THEN NaN ELSE (i + 1) % n

\* results of `await checkValueFunction(proxy)`.  The functions index.ts
\* passes (scraper.ts) run inside try/catch: a transport failure, like a
\* value not yet published, comes back as null and never as a rejection.
FetchOutcomes(ind) ==
    {[isNull |-> TRUE, v |-> 0]} \cup {[isNull |-> FALSE, v |-> x] : x \in ValuesOf(ind)}

\* a variant of the test of line 87 that takes a null for a value
shouldExecuteOnNull(out, executed) == ~executed

\* strategy.ts line 87: value !== null && !strategy_executed
shouldExecuteNoFlag(out, executed) == ~out.isNull

shouldExecute(out, executed) == ~out.isNull /\ ~executed

NoStrat == [value |-> 0, leverage |-> 0, proxy |-> undefined, tp |-> "none", sl |-> "none"]
NoPosition == [id |-> "none", openPrice |-> 0, amountInstrument |-> 0]

\* Positions the broker may report for an open call of `amount`
Positions(amount) ==
    { [id |-> "pA", openPrice |-> 60000, amountInstrument |-> amount],
      [id |-> "pB", openPrice |-> 66884, amountInstrument |-> 20],
      [id |-> "pB", openPrice |-> 60000, amountInstrument |-> amount],
      [id |-> "pA", openPrice |-> 66884, amountInstrument |-> 20] }

\* addTakeProfitStopLoss lines 114-115: Math.floor(openPrice * (1 -/+ pct)),
\* openPrice in cents, result in whole currency units
stopLossPriceLive(openPrice) == (openPrice * (10000 - STOP_LOSS_E4)) \div 1000000

takeProfitPriceLive(openPrice) == (openPrice * (10000 + TAKE_PROFIT_E4)) \div 1000000

\* strategy.ts lines 185-197: the open call chosen by the sign of leverage
openCall(lev, amount) ==
    [op |-> IF lev <= -1 THEN "openMarketShortPosition" ELSE "openMarketLongPosition",
     amount |-> amount * Abs(lev)]

\* addTakeProfitStopLoss: the two reducePosition calls
targetOrder(pos) ==
    [op |-> "reducePosition", id |-> pos.id, orderType |-> "TARGET",
     price |-> takeProfitPriceLive(pos.openPrice), amount |-> pos.amountInstrument]

stopOrder(pos) ==
    [op |-> "reducePosition", id |-> pos.id, orderType |-> "STOP",
     price |-> stopLossPriceLive(pos.openPrice), amount |-> pos.amountInstrument]

\* order in which addTakeProfitStopLoss submits: first, then second
reduceOrdersStopFirst(pos) == <<stopOrder(pos), targetOrder(pos)>>

reduceOrders(pos) == <<targetOrder(pos), stopOrder(pos)>>

(***************************************************************************)
(* The broker adapter, quantfury.ts.  An HTTP step is answered by a reply:  *)
(* its status (0: no response at all, a network failure) and, for a 200,    *)
(* whether the body says isSuccess and carries a `data` field.  axios       *)
(* resolves for a 2xx status and rejects otherwise.  An operation yields    *)
(* what it returns and the requests it made.                                *)
(***************************************************************************)
OkReply == [status |-> 200, isSuccess |-> TRUE, hasData |-> TRUE]

Replies ==
    { OkReply,
      [status |-> 200, isSuccess |-> FALSE, hasData |-> FALSE],
      [status |-> 200, isSuccess |-> FALSE, hasData |-> TRUE],
      [status |-> 204, isSuccess |-> FALSE, hasData |-> FALSE],
      [status |-> 500, isSuccess |-> FALSE, hasData |-> FALSE],
      [status |-> 0, isSuccess |-> FALSE, hasData |-> FALSE] }

resolves(r) == r.status >= 200 /\ r.status < 300

\* `value` tells what is returned: an APIError object, the `data` field of
\* the reply body, the whole reply body, or undefined
APIError(msg, status) ==
    [kind |-> "error", value |-> "error", error |-> msg, status_code |-> status]

Payload == [kind |-> "ok", value |-> "data", error |-> "", status_code |-> undefined]

\* `response.data`: the body {code, data, isSuccess} itself
Body == [Payload EXCEPT !.value = "body"]

\* what `response.data.data` evaluates to when the body has no data field
Undefined ==
    [kind |-> "undefined", value |-> "undefined", error |-> "", status_code |-> undefined]

\* utils.ts isAxiosError and the catch blocks: a rejection that carries a
\* response status, or any other error
catchError(r) ==
    IF r.status # 0 THEN APIError("Request failed", r.status)
    ELSE APIError("Unknown error occurred", undefined)

Options(url) == [method |-> "OPTIONS", url |-> url]
Post(url) == [method |-> "POST", url |-> url]

\* the try block shared by openLimitPosition, cancelLimitPosition,
\* reducePosition, closePosition and getPositions: OPTIONS, POST, then
\* status === 200 ? response.data.data : error
postForData(url, o, p) ==
    IF ~resolves(o) THEN [result |-> catchError(o), requests |-> <<Options(url)>>]
    ELSE [requests |-> <<Options(url), Post(url)>>,
          result |-> IF ~resolves(p) THEN catchError(p)
                     ELSE IF p.status = 200
                          THEN IF p.hasData THEN Payload ELSE Undefined
                          ELSE APIError("Request failed", p.status)]

\* getCurrentPrice lines 504-531: a Price or null, never an exception
getCurrentPrice(o, p) ==
    IF ~resolves(o) THEN [result |-> [Undefined EXCEPT !.kind = "null"],
                          requests |-> <<Options("price")>>]
    ELSE [requests |-> <<Options("price"), Post("price")>>,
          result |-> IF resolves(p) /\ p.status = 200 /\ p.hasData
                     THEN Payload ELSE [Undefined EXCEPT !.kind = "null"]]

\* openMarketPosition lines 311-340: the try block
openPost(o, p) ==
    IF ~resolves(o) THEN [result |-> catchError(o), requests |-> <<Options("positions/open")>>]
    ELSE [requests |-> <<Options("positions/open"), Post("positions/open")>>,
          result |-> IF ~resolves(p) THEN catchError(p)
                     ELSE IF p.status # 200 THEN APIError("Request failed", p.status)
                     ELSE IF ~p.isSuccess THEN APIError("Failed to open position", undefined)
                     ELSE Body]

\* openMarketPosition lines 281-341
openAfterPrice(price, o, p) ==
    IF price.result.kind = "null"
    THEN [result |-> APIError("Failed to fetch current price", undefined),
          requests |-> price.requests]
    ELSE [result |-> openPost(o, p).result,
          requests |-> price.requests \o openPost(o, p).requests]

\* a variant that fetches the price before it tests NO_TRADING
openMarketPositionPriceFirst(c) ==
    IF c.hasPriceId
    THEN IF c.NO_TRADING
         THEN [result |-> APIError("Trading is disabled", undefined), requests |-> <<>>]
         ELSE openPost(c.options, c.post)
    ELSE IF c.NO_TRADING /\ getCurrentPrice(c.priceOptions, c.pricePost).result.kind # "null"
         THEN [result |-> APIError("Trading is disabled", undefined),
               requests |-> getCurrentPrice(c.priceOptions, c.pricePost).requests]
         ELSE openAfterPrice(getCurrentPrice(c.priceOptions, c.pricePost), c.options, c.post)

openMarketPosition(c) ==
    IF c.NO_TRADING
    THEN [result |-> APIError("Trading is disabled", undefined), requests |-> <<>>]
    ELSE IF c.hasPriceId THEN openPost(c.options, c.post)
    ELSE openAfterPrice(getCurrentPrice(c.priceOptions, c.pricePost), c.options, c.post)

\* openLimitPosition lines 112-170
openLimitPosition(c) ==
    IF c.NO_TRADING
    THEN [result |-> APIError("Trading is disabled", undefined), requests |-> <<>>]
    ELSE postForData("limitOrder/create", c.options, c.post)

cancelLimitPosition(c) == postForData("limitOrder/cancel", c.options, c.post)

reducePosition(c) == postForData("reduceOrders/create", c.options, c.post)

closePosition(c) == postForData("positions/close", c.options, c.post)

getPositions(c) == postForData("positions", c.options, c.post)

MarketOps == {"openMarketLongPosition", "openMarketShortPosition",
              "openExtendedMarketLongPosition", "openExtendedMarketShortPosition"}

LimitOps == {"openLimitLongPosition", "openLimitShortPosition",
             "openExtendedLimitLongPosition", "openExtendedLimitShortPosition"}

DataOps == {"cancelLimitPosition", "reducePosition", "closePosition", "getPositions"}

\* a call of an adapter operation with the replies its HTTP steps will get
AdapterCall(op, noTrading, hasPriceId, po, pp, o, p) ==
    [op |-> op, NO_TRADING |-> noTrading, hasPriceId |-> hasPriceId,
     priceOptions |-> po, pricePost |-> pp, options |-> o, post |-> p]

\* the exported operation named c.op applied to the call
adapterReturn(c) ==
    IF c.op \in MarketOps THEN openMarketPosition(c)
    ELSE IF c.op \in LimitOps THEN openLimitPosition(c)
    ELSE IF c.op = "cancelLimitPosition" THEN cancelLimitPosition(c)
    ELSE IF c.op = "reducePosition" THEN reducePosition(c)
    ELSE IF c.op = "closePosition" THEN closePosition(c)
    ELSE IF c.op = "getPositions" THEN getPositions(c)
    ELSE getCurrentPrice(c.priceOptions, c.pricePost)

NoCall == AdapterCall("none", FALSE, FALSE, OkReply, OkReply, OkReply, OkReply)

NotReturned == [Undefined EXCEPT !.kind = "pending"]

\* what the open call and a reduce call of the live strategy may return
OpenReturns ==
    { openMarketPosition(AdapterCall("openMarketLongPosition", nt, FALSE, po, pp, o, p)).result.kind :
        nt \in BOOLEAN, po \in Replies, pp \in Replies, o \in Replies, p \in Replies }

ReduceReturns ==
    { reducePosition(AdapterCall("reducePosition", FALSE, FALSE, OkReply, OkReply, o, p)).result.kind :
        o \in Replies, p \in Replies }

(***************************************************************************)
(* launchAlgorithm, strategy.ts (leverage variant) lines 63-104            *)
(***************************************************************************)
\* a variant without the empty-list exit of lines 71-74
LaunchProxyless(n) ==
    /\ mode = "live" /\ lpc = "start"
    /\ proxies' = IF cfg.NO_PROXY THEN 0 ELSE n
    /\ lpc' = "polling" /\ timerActive' = TRUE
    /\ UNCHANGED <<unhandled, mode, cfg, strategy_executed, proxyIndex, ticks, inflight,
                   fetchLog, execCount, nonNull, spc, strat, position, calls>>
    /\ UNCHANGED btVars
    /\ UNCHANGED adapterVars
    /\ UNCHANGED pushVars
    /\ UNCHANGED bandVars

\* lines 68-76: getProxies, the empty-list exit, setInterval
Launch(n) ==
    /\ mode = "live" /\ lpc = "start"
    /\ proxies' = IF cfg.NO_PROXY THEN 0 ELSE n
    /\ IF ~cfg.NO_PROXY /\ n = 0
       THEN lpc' = "exited" /\ timerActive' = FALSE
       ELSE lpc' = "polling" /\ timerActive' = TRUE
    /\ UNCHANGED <<unhandled, mode, cfg, strategy_executed, proxyIndex, ticks, inflight,
                   fetchLog, execCount, nonNull, spc, strat, position, calls>>
    /\ UNCHANGED btVars
    /\ UNCHANGED adapterVars
    /\ UNCHANGED pushVars
    /\ UNCHANGED bandVars

\* a variant of the callback without line 82 (the timer is never cleared here)
TickKeepsTimer ==
    /\ mode = "live" /\ lpc = "polling" /\ timerActive
    /\ ticks < MaxTicks
    /\ ticks' = ticks + 1
    /\ IF strategy_executed
       THEN UNCHANGED <<timerActive, proxyIndex, inflight, fetchLog>>
       ELSE /\ timerActive' = timerActive
            /\ fetchLog' = Append(fetchLog,
                   IF cfg.NO_PROXY THEN null ELSE proxyAt(proxyIndex, proxies))
            /\ proxyIndex' = nextProxyIndex(proxyIndex, proxies)
            /\ inflight' = inflight \cup {ticks + 1}
    /\ UNCHANGED <<unhandled, mode, cfg, lpc, proxies, strategy_executed, execCount,
                   nonNull, spc, strat, position, calls>>
    /\ UNCHANGED btVars
    /\ UNCHANGED adapterVars
    /\ UNCHANGED pushVars
    /\ UNCHANGED bandVars

\* lines 78-86: a timer callback runs up to `await checkValueFunction(proxy)`
Tick ==
    /\ mode = "live" /\ lpc = "polling" /\ timerActive
    /\ ticks < MaxTicks
    /\ ticks' = ticks + 1
    /\ IF strategy_executed
       THEN UNCHANGED <<timerActive, proxyIndex, inflight, fetchLog>>
       ELSE /\ timerActive' = IF cfg.NO_RECURRENT_FETCH THEN FALSE ELSE timerActive
            /\ fetchLog' = Append(fetchLog,
                   IF cfg.NO_PROXY THEN null ELSE proxyAt(proxyIndex, proxies))
            /\ proxyIndex' = nextProxyIndex(proxyIndex, proxies)
            /\ inflight' = inflight \cup {ticks + 1}
    /\ UNCHANGED <<unhandled, mode, cfg, lpc, proxies, strategy_executed, execCount,
                   nonNull, spc, strat, position, calls>>
    /\ UNCHANGED btVars
    /\ UNCHANGED adapterVars
    /\ UNCHANGED pushVars
    /\ UNCHANGED bandVars

\* executeTradingStrategy lines 164-183, entered from line 91: the
\* synchronous part up to `await initQuantfury(proxy)`
StartStrategy(value, proxy) ==
    LET lev == computeLeverage(value, cfg.ind.threshold, cfg.ind.offset,
                               cfg.ind.direction, cfg.amt.AMOUNT, cfg.amt.MAX_AMOUNT)
    IN  /\ strat' = [NoStrat EXCEPT !.value = value, !.leverage = lev, !.proxy = proxy]
        /\ position' = NoPosition
        /\ IF deadZone(lev)
           THEN spc' = "done" /\ calls' = calls
           ELSE spc' = "init" /\ calls' = Append(calls, [op |-> "initQuantfury", proxy |-> proxy])

\* a variant of the continuation that stops polling after a null fetch
FetchReturnGivesUp(f, out) ==
    /\ mode = "live" /\ f \in inflight
    /\ inflight' = inflight \ {f}
    /\ nonNull' = IF out.isNull THEN nonNull ELSE nonNull + 1
    /\ IF shouldExecute(out, strategy_executed)
       THEN /\ strategy_executed' = TRUE
            /\ timerActive' = FALSE
            /\ execCount' = execCount + 1
            /\ StartStrategy(out.v,
                   IF cfg.NO_PROXY THEN null ELSE proxyAt(STRATEGY_PROXY_INDEX, proxies))
       ELSE /\ timerActive' = FALSE
            /\ UNCHANGED <<strategy_executed, execCount, spc, strat, position, calls>>
    /\ UNCHANGED <<unhandled, mode, cfg, lpc, proxies, proxyIndex, ticks, fetchLog>>
    /\ UNCHANGED btVars
    /\ UNCHANGED adapterVars
    /\ UNCHANGED pushVars
    /\ UNCHANGED bandVars

\* a variant that leaves the flag and the timer alone until the strategy is
\* over
FetchReturnFlagLate(f, out) ==
    /\ mode = "live" /\ f \in inflight
    /\ inflight' = inflight \ {f}
    /\ nonNull' = IF out.isNull THEN nonNull ELSE nonNull + 1
    /\ IF shouldExecute(out, strategy_executed)
       THEN /\ UNCHANGED <<strategy_executed, timerActive>>
            /\ execCount' = execCount + 1
            /\ StartStrategy(out.v,
                   IF cfg.NO_PROXY THEN null ELSE proxyAt(STRATEGY_PROXY_INDEX, proxies))
       ELSE UNCHANGED <<strategy_executed, timerActive, execCount, spc, strat,
                        position, calls>>
    /\ UNCHANGED <<unhandled, mode, cfg, lpc, proxies, proxyIndex, ticks, fetchLog>>
    /\ UNCHANGED btVars
    /\ UNCHANGED adapterVars
    /\ UNCHANGED pushVars
    /\ UNCHANGED bandVars

\* lines 86-102: the continuation of a tick after its fetch resolved
FetchReturn(f, out) ==
    /\ mode = "live" /\ f \in inflight
    /\ inflight' = inflight \ {f}
    /\ nonNull' = IF out.isNull THEN nonNull ELSE nonNull + 1
    /\ IF shouldExecute(out, strategy_executed)
       THEN /\ strategy_executed' = TRUE
            /\ timerActive' = FALSE
            /\ execCount' = execCount + 1
            /\ StartStrategy(out.v,
                   IF cfg.NO_PROXY THEN null ELSE proxyAt(STRATEGY_PROXY_INDEX, proxies))
       ELSE UNCHANGED <<strategy_executed, timerActive, execCount, spc, strat,
                        position, calls>>
    /\ UNCHANGED <<unhandled, mode, cfg, lpc, proxies, proxyIndex, ticks, fetchLog>>
    /\ UNCHANGED btVars
    /\ UNCHANGED adapterVars
    /\ UNCHANGED pushVars
    /\ UNCHANGED bandVars

\* lines 185-197: initQuantfury resolved; the open-market call is issued
InitReturn ==
    /\ mode = "live" /\ spc = "init"
    /\ calls' = Append(calls, openCall(strat.leverage, cfg.amt.AMOUNT))
    /\ spc' = "open"
    /\ UNCHANGED <<unhandled, mode, cfg, lpc, proxies, strategy_executed, timerActive,
                   proxyIndex, ticks, inflight, fetchLog, execCount, nonNull,
                   strat, position>>
    /\ UNCHANGED btVars
    /\ UNCHANGED adapterVars
    /\ UNCHANGED pushVars
    /\ UNCHANGED bandVars

\* a variant that goes on to addTakeProfitStopLoss whatever the open call returned
OpenReturnIgnoreError(ok, pos) ==
    /\ mode = "live" /\ spc = "open"
    /\ position' = pos
    /\ calls' = Append(calls, reduceOrders(pos)[1])
    /\ spc' = "tp"
    /\ UNCHANGED <<unhandled, mode, cfg, lpc, proxies, strategy_executed, timerActive,
                   proxyIndex, ticks, inflight, fetchLog, execCount, nonNull,
                   strat>>
    /\ UNCHANGED btVars
    /\ UNCHANGED adapterVars
    /\ UNCHANGED pushVars
    /\ UNCHANGED bandVars

\* lines 199-207 and addTakeProfitStopLoss 113-122: the open call resolved
OpenReturn(ok, pos) ==
    /\ mode = "live" /\ spc = "open"
    /\ IF ok
       THEN /\ position' = pos
            /\ calls' = Append(calls, reduceOrders(pos)[1])
            /\ spc' = "tp"
       ELSE /\ position' = position
            /\ calls' = calls
            /\ spc' = "done"
    /\ UNCHANGED <<unhandled, mode, cfg, lpc, proxies, strategy_executed, timerActive,
                   proxyIndex, ticks, inflight, fetchLog, execCount, nonNull,
                   strat>>
    /\ UNCHANGED btVars
    /\ UNCHANGED adapterVars
    /\ UNCHANGED pushVars
    /\ UNCHANGED bandVars

\* addTakeProfitStopLoss lines 124-135: first reduce call resolved
TpReturn(res) ==
    /\ mode = "live" /\ spc = "tp"
    /\ strat' = [strat EXCEPT !.tp = res]
    /\ calls' = Append(calls, reduceOrders(position)[2])
    /\ spc' = "sl"
    /\ UNCHANGED <<unhandled, mode, cfg, lpc, proxies, strategy_executed, timerActive,
                   proxyIndex, ticks, inflight, fetchLog, execCount, nonNull,
                   position>>
    /\ UNCHANGED btVars
    /\ UNCHANGED adapterVars
    /\ UNCHANGED pushVars
    /\ UNCHANGED bandVars

\* addTakeProfitStopLoss lines 137-142: second reduce call resolved
SlReturn(res) ==
    /\ mode = "live" /\ spc = "sl"
    /\ strat' = [strat EXCEPT !.sl = res]
    /\ spc' = "done"
    /\ UNCHANGED <<unhandled, mode, cfg, lpc, proxies, strategy_executed, timerActive,
                   proxyIndex, ticks, inflight, fetchLog, execCount, nonNull,
                   position, calls>>
    /\ UNCHANGED btVars
    /\ UNCHANGED adapterVars
    /\ UNCHANGED pushVars
    /\ UNCHANGED bandVars

\* a tick's promise rejected: nobody awaits or catches the promise the
\* setInterval callback returns.  Whether the process then dies depends on
\* the Node.js version and its --unhandled-rejections mode.
Rejected(crash) ==
    /\ unhandled' = unhandled + 1
    /\ IF crash
       THEN lpc' = "crashed" /\ timerActive' = FALSE /\ inflight' = {}
       ELSE UNCHANGED <<lpc, timerActive, inflight>>

\* addTakeProfitStopLoss line 124: reducePosition returned undefined and
\* `'error' in tpResponse` throws a TypeError; the STOP order is not submitted
TpThrows(crash) ==
    /\ mode = "live" /\ spc = "tp"
    /\ "undefined" \in ReduceReturns
    /\ strat' = [strat EXCEPT !.tp = "undefined"]
    /\ spc' = "threw"
    /\ Rejected(crash)
    /\ UNCHANGED <<mode, cfg, proxies, strategy_executed, proxyIndex, ticks,
                   fetchLog, execCount, nonNull, position, calls>>
    /\ UNCHANGED btVars
    /\ UNCHANGED adapterVars
    /\ UNCHANGED pushVars
    /\ UNCHANGED bandVars

\* addTakeProfitStopLoss line 137: the same on the STOP reply
SlThrows(crash) ==
    /\ mode = "live" /\ spc = "sl"
    /\ "undefined" \in ReduceReturns
    /\ strat' = [strat EXCEPT !.sl = "undefined"]
    /\ spc' = "threw"
    /\ Rejected(crash)
    /\ UNCHANGED <<mode, cfg, proxies, strategy_executed, proxyIndex, ticks,
                   fetchLog, execCount, nonNull, position, calls>>
    /\ UNCHANGED btVars
    /\ UNCHANGED adapterVars
    /\ UNCHANGED pushVars
    /\ UNCHANGED bandVars

InitLive ==
    /\ mode = "live"
    /\ cfg \in Configs
    /\ lpc = "start" /\ proxies = 0
    /\ strategy_executed = FALSE /\ timerActive = FALSE
    /\ proxyIndex = 0 /\ ticks = 0 /\ inflight = {} /\ fetchLog = <<>>
    /\ execCount = 0 /\ nonNull = 0 /\ unhandled = 0
    /\ spc = "idle" /\ strat = NoStrat /\ position = NoPosition /\ calls = <<>>
    /\ file = <<>> /\ evCount = 0 /\ results = <<>> /\ log = <<>>
    /\ saved = NotWritten /\ reread = NotRead
    /\ call = NoCall /\ ret = NotReturned /\ requests = <<>>
    /\ runs = <<>>
    /\ pushIdle

NextLive ==
    \/ \E n \in 0..MaxProxies : Launch(n)
    \/ Tick
    \/ \E f \in inflight : \E out \in FetchOutcomes(cfg.ind) : FetchReturn(f, out)
    \/ InitReturn
    \/ \E pos \in Positions(cfg.amt.AMOUNT * Abs(strat.leverage)) :
          "ok" \in OpenReturns /\ OpenReturn(TRUE, pos)
    \/ "error" \in OpenReturns /\ OpenReturn(FALSE, NoPosition)
    \/ \E res \in ReduceReturns \ {"undefined"} : TpReturn(res)
    \/ \E res \in ReduceReturns \ {"undefined"} : SlReturn(res)
    \/ \E crash \in BOOLEAN : TpThrows(crash)
    \/ \E crash \in BOOLEAN : SlThrows(crash)

SpecLive == InitLive /\ [][NextLive]_vars

\* Recurring mode under fair scheduling: while the interval is scheduled the
\* Node.js event loop keeps firing it, and a pending fetch promise settles
\* (every scraper ends in a value or in its catch block).
\* The loop reads neither the indicator nor the amounts: the fair runs take
\* the CPI strategy with AMOUNT 100 and MAX_AMOUNT 250.
InitRecurring ==
    /\ InitLive
    /\ ~cfg.NO_RECURRENT_FETCH
    /\ cfg.ind.name = "CPI"
    /\ cfg.amt = [AMOUNT |-> 100, MAX_AMOUNT |-> 250]

SpecLiveFair ==
    /\ InitRecurring
    /\ [][NextLive]_vars
    /\ WF_vars(Tick)
    /\ WF_vars(\E f \in inflight : \E out \in FetchOutcomes(cfg.ind) : FetchReturn(f, out))

(***************************************************************************)
(* The price file.  A file is a header line of `hdr` bytes followed by n   *)
(* records, one per line; the first k records are l1 bytes long and the    *)
(* others l2 bytes (line feed included); nl tells whether the last record  *)
(* ends with a line feed.  The first Len(bars) records carry explicit bars,*)
(* the others are one-second bars of a quiet market (opens within 0.03 of  *)
(* each other) in which every 16th bar spikes 3% up.                       *)
(***************************************************************************)
FlatBar(i) ==
    [ts |-> 1000 * i, open |-> 10000 + (i % 4),
     high |-> IF i % 16 = 0 THEN 10300 ELSE 10005, low |-> 9995, close |-> 10001]

barAt(f, i) == IF i <= Len(f.bars) THEN f.bars[i] ELSE FlatBar(i)

\* byte offset of the first byte of record i (i = n + 1: end of the records)
RecStart(f, i) ==
    f.hdr + (IF i - 1 <= f.k THEN (i - 1) * f.l1
             ELSE f.k * f.l1 + (i - 1 - f.k) * f.l2)

\* byte offset of the line feed ending line i (line 0 is the header)
NL(f, i) == RecStart(f, i + 1) - 1

\* number of line feeds in the file
NumNL(f) == IF f.nl THEN f.n + 1 ELSE f.n

fileSize(f) == IF f.hdr = 0 THEN 0 ELSE RecStart(f, f.n + 1) - (IF f.nl THEN 0 ELSE 1)

CeilDiv(a, b) == (a + b - 1) \div b

\* index of the first line feed at or after byte p, -1 if there is none
FirstNLIndex(f, p) ==
    LET i == IF p <= f.hdr - 1 THEN 0
             ELSE IF p <= f.hdr + f.k * f.l1 - 1
                  THEN CeilDiv(p - f.hdr + 1, f.l1)
                  ELSE f.k + CeilDiv(p - f.hdr - f.k * f.l1 + 1, f.l2)
    IN  IF i <= NumNL(f) - 1 THEN i ELSE -1

\* index of the last line feed at or before byte q, -1 if there is none
LastNLIndex(f, q) ==
    LET i == IF q < f.hdr - 1 THEN -1
             ELSE IF q < f.hdr + f.k * f.l1 - 1
                  THEN (q - f.hdr + 1) \div f.l1
                  ELSE f.k + ((q - f.hdr - f.k * f.l1 + 1) \div f.l2)
    IN  IF i <= NumNL(f) - 1 THEN i ELSE NumNL(f) - 1

(***************************************************************************)
(* binarySearchCSV, utils/utils.ts lines 69-132                            *)
(***************************************************************************)
chunkSize == 50000
fineSize == 1000

\* lines 84-111: the rows of the window read at readPosition are the lines
\* between its first and its last line feed; found, if one of them has a
\* timestamp >= targetTime.  A window without a line feed is a single
\* fragment of a line (or zero bytes past the end), whose first field does
\* not parse to a time at or after the target.
chunkFound(f, readPosition, targetTime) ==
    LET a == FirstNLIndex(f, readPosition)
        b == LastNLIndex(f, readPosition + chunkSize - 1)
    IN  /\ a # -1
        /\ NL(f, a) <= readPosition + chunkSize - 1
        /\ \E i \in (a + 1)..b : barAt(f, i).ts >= targetTime

\* line 84
readPositionOf(mid) == IF mid - (chunkSize \div 2) > 0 THEN mid - (chunkSize \div 2) ELSE 0

\* an iteration that, on a window that is found, sets end = readPosition
searchStepStalls(f, targetTime, st) ==
    IF chunkFound(f, readPositionOf((st.start + st.end) \div 2), targetTime)
    THEN [start |-> st.start, end |-> readPositionOf((st.start + st.end) \div 2),
          foundPosition |-> readPositionOf((st.start + st.end) \div 2)]
    ELSE [start |-> readPositionOf((st.start + st.end) \div 2) + chunkSize,
          end |-> st.end, foundPosition |-> st.foundPosition]

\* lines 80-117: one iteration of the while loop on (start, end,
\* foundPosition)
searchStep(f, targetTime, st) ==
    IF chunkFound(f, readPositionOf((st.start + st.end) \div 2), targetTime)
    THEN [start |-> st.start, end |-> readPositionOf((st.start + st.end) \div 2) - 1,
          foundPosition |-> readPositionOf((st.start + st.end) \div 2)]
    ELSE [start |-> readPositionOf((st.start + st.end) \div 2) + chunkSize,
          end |-> st.end, foundPosition |-> st.foundPosition]

\* lines 79-118: the states of the while loop, from st until start > end or
\* for MaxSearchSteps iterations
RECURSIVE searchRun(_, _, _, _)
searchRun(f, targetTime, st, fuel) ==
    IF st.start > st.end \/ fuel = 0 THEN <<st>>
    ELSE <<st>> \o searchRun(f, targetTime, searchStep(f, targetTime, st), fuel - 1)

lastOf(run) == run[Len(run)]

\* lines 79-118: the while loop; yields foundPosition
searchLoop(f, targetTime, start, end, foundPosition) ==
    lastOf(searchRun(f, targetTime,
                     [start |-> start, end |-> end, foundPosition |-> foundPosition],
                     MaxSearchSteps)).foundPosition

\* lines 121-131: chunk.indexOf('\n') + 1 in the 1000 bytes at foundPosition
startLineIndex(f, foundPosition) ==
    LET a == FirstNLIndex(f, foundPosition)
    IN  IF a # -1 /\ NL(f, a) <= foundPosition + fineSize - 1
        THEN NL(f, a) - foundPosition + 1
        ELSE 0

\* lines 121-131: the value returned for the foundPosition the loop left
returnedPosition(f, foundPosition) ==
    IF foundPosition # -1
    THEN foundPosition + startLineIndex(f, foundPosition)
    ELSE 0

binarySearchCSV(f, targetTime) ==
    returnedPosition(f, searchLoop(f, targetTime, 0, fileSize(f), -1))

(***************************************************************************)
(* loadPricesFromPosition, backtester.ts lines 681-719.  The rows parsed   *)
(* from byte startPosition are the records that begin at or after it; the  *)
(* result is the range of record indices first..last that were pushed.     *)
(***************************************************************************)
BT_STOP_LOSS_E4 == 20
BT_TAKE_PROFIT_E4 == 200
BT_RETURN_THRESHOLD_E4 == 15
BT_AMOUNT == 200000
BT_MAX_AMOUNT == 1000000
OFFSET_NFP == 15000
OFFSET_CPI == 2
OFFSET_FOMC == 2
GRACE_MS == 10000
MAX_HOLD_MS == 1500000

\* index of the first record beginning at or after byte pos (n + 1: none)
firstRecordFrom(f, pos) ==
    LET a == FirstNLIndex(f, pos - 1)
    IN  IF a # -1 /\ a + 1 <= f.n THEN a + 1 ELSE f.n + 1

\* lines 756-761: the stop condition passed by backtest
stopCondition(price, entryPrice) ==
    \/ price.high * 10000 > entryPrice * (10000 + BT_TAKE_PROFIT_E4)
    \/ price.low * 10000 < entryPrice * (10000 - BT_TAKE_PROFIT_E4)

\* lines 695-698: the record at which entryPrice is set, the first one from
\* `first` on whose timestamp equals entryTime (n + 1: none)
entryIndex(f, first, entryTime) ==
    IF \E i \in first..f.n : barAt(f, i).ts = entryTime
    THEN CHOOSE i \in first..f.n :
            /\ barAt(f, i).ts = entryTime
            /\ \A j \in first..(i - 1) : barAt(f, j).ts # entryTime
    ELSE f.n + 1

\* a reader that never stops on the condition
lastPushedToEnd(f, entryIdx, entryPrice) == f.n

\* lines 708-712: the last record pushed, the first from entryIdx on that
\* meets the stop condition (entryPrice 0: the condition is never tried)
lastPushed(f, entryIdx, entryPrice) ==
    IF entryPrice # 0 /\ \E i \in entryIdx..f.n : stopCondition(barAt(f, i), entryPrice)
    THEN CHOOSE i \in entryIdx..f.n :
            /\ stopCondition(barAt(f, i), entryPrice)
            /\ \A j \in entryIdx..(i - 1) : ~stopCondition(barAt(f, j), entryPrice)
    ELSE f.n

pushedFrom(f, first, entryIdx) ==
    [first |-> first,
     last |-> lastPushed(f, entryIdx, IF entryIdx <= f.n THEN barAt(f, entryIdx).open ELSE 0)]

loadPricesFromPosition(f, startPosition, entryTime) ==
    pushedFrom(f, firstRecordFrom(f, startPosition),
               entryIndex(f, firstRecordFrom(f, startPosition), entryTime))

(***************************************************************************)
(* backtest, backtester.ts lines 735-933                                   *)
(***************************************************************************)
ID_FOMC == "fcfae951-09a7-449e-b6fe-525e1335aaba"
ID_CPI == "6f846eaa-9a12-43ab-930d-f059069c6646"
ID_NFP == "9cdf56fd-99e4-4026-aa99-2b6c0ca92811"
ID_OTHER == "9ae5cf07-55da-4f0f-b21d-f6f0835731d9"

\* lines 778-787: the offset table; 0 stands for `continue`
offsetOf(eventId) ==
    IF eventId = ID_FOMC THEN OFFSET_FOMC
    ELSE IF eventId = ID_CPI THEN OFFSET_CPI
    ELSE IF eventId = ID_NFP THEN OFFSET_NFP
    ELSE 0

\* the take-profit level with the directions exchanged
takeProfitPriceMirrored(leverage, entryPrice) ==
    IF leverage > 0 THEN entryPrice * (10000 - BT_TAKE_PROFIT_E4)
    ELSE entryPrice * (10000 + BT_TAKE_PROFIT_E4)

\* lines 815-834: exit levels, in E4
takeProfitPrice(leverage, entryPrice) ==
    IF leverage > 0 THEN entryPrice * (10000 + BT_TAKE_PROFIT_E4)
    ELSE entryPrice * (10000 - BT_TAKE_PROFIT_E4)

stopLossPrice(leverage, entryPrice) ==
    IF leverage > 0 THEN entryPrice * (10000 - BT_STOP_LOSS_E4)
    ELSE entryPrice * (10000 + BT_STOP_LOSS_E4)

returnThreshold(leverage, entryPrice) ==
    IF leverage > 0 THEN entryPrice * (10000 + BT_RETURN_THRESHOLD_E4)
    ELSE entryPrice * (10000 - BT_RETURN_THRESHOLD_E4)

\* lines 840-906: the exit rule applied to one bar, ms = time since the event
barExitStopFirst(price, ms, leverage, entryPrice) ==
    LET tp == takeProfitPrice(leverage, entryPrice)
        sl == stopLossPrice(leverage, entryPrice)
        rt == returnThreshold(leverage, entryPrice)
        hi == price.high * 10000
        lo == price.low * 10000
    IN  IF leverage > 0
        THEN IF lo <= sl THEN "sl"
             ELSE IF hi >= tp THEN "tp"
             ELSE IF ms >= GRACE_MS
                  THEN IF hi < rt THEN "nomove"
                       ELSE IF ms >= MAX_HOLD_MS THEN "maxhold" ELSE "none"
                  ELSE "none"
        ELSE IF hi >= sl THEN "sl"
             ELSE IF lo <= tp THEN "tp"
             ELSE IF ms >= GRACE_MS
                  THEN IF lo > rt THEN "nomove"
                       ELSE IF ms >= MAX_HOLD_MS THEN "maxhold" ELSE "none"
                  ELSE "none"

barExitLateGrace(price, ms, leverage, entryPrice) ==
    LET tp == takeProfitPrice(leverage, entryPrice)
        sl == stopLossPrice(leverage, entryPrice)
        rt == returnThreshold(leverage, entryPrice)
        hi == price.high * 10000
        lo == price.low * 10000
    IN  IF leverage > 0
        THEN IF hi >= tp THEN "tp"
             ELSE IF lo <= sl THEN "sl"
             ELSE IF ms > GRACE_MS
                  THEN IF hi < rt THEN "nomove"
                       ELSE IF ms >= MAX_HOLD_MS THEN "maxhold" ELSE "none"
                  ELSE "none"
        ELSE IF lo <= tp THEN "tp"
             ELSE IF hi >= sl THEN "sl"
             ELSE IF ms > GRACE_MS
                  THEN IF lo > rt THEN "nomove"
                       ELSE IF ms >= MAX_HOLD_MS THEN "maxhold" ELSE "none"
                  ELSE "none"

\* the exit rule with the timeout tests ahead of the level tests
barExitTimeoutFirst(price, ms, leverage, entryPrice) ==
    LET tp == takeProfitPrice(leverage, entryPrice)
        sl == stopLossPrice(leverage, entryPrice)
        rt == returnThreshold(leverage, entryPrice)
        hi == price.high * 10000
        lo == price.low * 10000
    IN  IF leverage > 0
        THEN IF ms >= GRACE_MS /\ hi < rt THEN "nomove"
             ELSE IF ms >= MAX_HOLD_MS THEN "maxhold"
             ELSE IF hi >= tp THEN "tp"
             ELSE IF lo <= sl THEN "sl"
             ELSE "none"
        ELSE IF ms >= GRACE_MS /\ lo > rt THEN "nomove"
             ELSE IF ms >= MAX_HOLD_MS THEN "maxhold"
             ELSE IF lo <= tp THEN "tp"
             ELSE IF hi >= sl THEN "sl"
             ELSE "none"

barExit(price, ms, leverage, entryPrice) ==
    LET tp == takeProfitPrice(leverage, entryPrice)
        sl == stopLossPrice(leverage, entryPrice)
        rt == returnThreshold(leverage, entryPrice)
        hi == price.high * 10000
        lo == price.low * 10000
    IN  IF leverage > 0
        THEN IF hi >= tp THEN "tp"
             ELSE IF lo <= sl THEN "sl"
             ELSE IF ms >= GRACE_MS
                  THEN IF hi < rt THEN "nomove"
                       ELSE IF ms >= MAX_HOLD_MS THEN "maxhold" ELSE "none"
                  ELSE "none"
        ELSE IF lo <= tp THEN "tp"
             ELSE IF hi >= sl THEN "sl"
             ELSE IF ms >= GRACE_MS
                  THEN IF lo > rt THEN "nomove"
                       ELSE IF ms >= MAX_HOLD_MS THEN "maxhold" ELSE "none"
                  ELSE "none"

\* the exitPrice assigned by the branch taken, in E4
exitPriceOf(kind, price, leverage, entryPrice) ==
    IF kind = "tp" THEN takeProfitPrice(leverage, entryPrice)
    ELSE IF kind = "sl" THEN stopLossPrice(leverage, entryPrice)
    ELSE price.close * 10000

\* lines 827-907: the loop over relevantPrices (the loaded bars with
\* timestamp >= eventTime), from record i on; without a break the initial
\* exitPrice = entryPrice and exitTime = eventTime remain
RECURSIVE simulate(_, _, _, _, _, _)
simulate(f, i, last, eventTime, leverage, entryPrice) ==
    IF i > last
    THEN [kind |-> "none", idx |-> 0, exitPrice |-> entryPrice * 10000, exitTime |-> eventTime]
    ELSE LET price == barAt(f, i)
             kind == barExit(price, price.ts - eventTime, leverage, entryPrice)
         IN  IF price.ts < eventTime \/ kind = "none"
             THEN simulate(f, i + 1, last, eventTime, leverage, entryPrice)
             ELSE [kind |-> kind, idx |-> i,
                   exitPrice |-> exitPriceOf(kind, price, leverage, entryPrice),
                   exitTime |-> price.ts]

\* parseFloat(x.toFixed(2)) of a price given in E4: the nearest cent
toFixed2(xE4) == (xE4 + 5000) \div 10000

\* line 927, parseFloat(profitOrLoss.toFixed(2)), in cents: the quotient
\* diff * notional / (entry * 10000) rounded to the nearest cent, computed
\* from the quotient and the remainder of |diff| by entry (AMOUNT is a
\* multiple of 100)
profitOrLossCents(p) ==
    Sign(p.diff) *
        ((Abs(p.diff) \div p.entry) * (p.notional \div 100)
         + (2 * (Abs(p.diff) % p.entry) * (p.notional \div 100) + p.entry) \div (2 * p.entry))

\* the Result with the long formula of profitOrLoss used for both directions
makeResultLongFormula(it) ==
    [event |-> it.event.name,
     entryTime |-> it.event.dateUtc,
     exitTime |-> it.exitTime,
     action |-> IF it.exit = "nomove"
                THEN IF it.leverage > 0 THEN "buy (closed due to no movement)"
                     ELSE "sell (closed due to no movement)"
                ELSE IF it.leverage > 0 THEN "buy" ELSE "sell",
     entryPrice |-> toFixed2(it.entryPrice * 10000),
     exitPrice |-> toFixed2(it.exitPrice),
     profitOrLoss |-> [diff |-> it.exitPrice - it.entryPrice * 10000,
                       notional |-> BT_AMOUNT * Abs(it.leverage),
                       entry |-> it.entryPrice],
     amountBTC |-> [notional |-> BT_AMOUNT * Abs(it.leverage), entry |-> it.entryPrice]]

\* lines 909-929: the Result pushed for the traded iteration `it`.
\* profitOrLoss and amountBTC are kept as exact quotients:
\* amountBTC = notional / entry and profitOrLoss = diff * notional / (entry * 10000)
makeResult(it) ==
    [event |-> it.event.name,
     entryTime |-> it.event.dateUtc,
     exitTime |-> it.exitTime,
     action |-> IF it.exit = "nomove"
                THEN IF it.leverage > 0 THEN "buy (closed due to no movement)"
                     ELSE "sell (closed due to no movement)"
                ELSE IF it.leverage > 0 THEN "buy" ELSE "sell",
     entryPrice |-> toFixed2(it.entryPrice * 10000),
     exitPrice |-> toFixed2(it.exitPrice),
     profitOrLoss |-> [diff |-> IF it.leverage > 0
                                THEN it.exitPrice - it.entryPrice * 10000
                                ELSE it.entryPrice * 10000 - it.exitPrice,
                       notional |-> BT_AMOUNT * Abs(it.leverage),
                       entry |-> it.entryPrice],
     amountBTC |-> [notional |-> BT_AMOUNT * Abs(it.leverage), entry |-> it.entryPrice]]

\* line 747: the value of startPosition that makes backtest skip the event
skipPosition(startPosition) == startPosition = 0

\* what an iteration of the for-loop (lines 743-930) did, before any of it
noIteration(e, startPosition) ==
    [event |-> e, startPosition |-> startPosition,
     first |-> 0, last |-> 0, rel |-> 0, entryPrice |-> 0,
     leverage |-> 0, exit |-> "none", exitIdx |-> 0, exitPrice |-> 0, exitTime |-> 0]

\* lines 768-770: index of relevantPrices[0], the first loaded record with
\* timestamp >= eventTime (0: relevantPrices is empty)
firstRelevant(f, prices, eventTime) ==
    IF \E i \in prices.first..prices.last : barAt(f, i).ts >= eventTime
    THEN CHOOSE i \in prices.first..prices.last :
            /\ barAt(f, i).ts >= eventTime
            /\ \A j \in prices.first..(i - 1) : barAt(f, j).ts < eventTime
    ELSE 0

\* the leverage of the backtest with the quotient rounded to the nearest
\* integer
backtestLeverageRounded(value, threshold, offset) ==
    LET raw == rawLeverageRounded(value, threshold, offset)
        maxLev == FloorDiv(BT_MAX_AMOUNT, BT_AMOUNT)
        capped == IF raw > maxLev THEN maxLev ELSE raw
        floored == IF (-maxLev) > capped THEN -maxLev ELSE capped
    IN  -floored

\* lines 789-798: the leverage computed by the backtest loop, whose
\* `direction` is the constant false
backtestLeverage(value, threshold, offset) ==
    LET raw == Sign(value - threshold) * Sign(offset)
                   * (Abs(value - threshold) \div Abs(offset))
        maxLev == FloorDiv(BT_MAX_AMOUNT, BT_AMOUNT)
        capped == IF raw > maxLev THEN maxLev ELSE raw
        floored == IF (-maxLev) > capped THEN -maxLev ELSE capped
    IN  -floored

\* lines 775-776: threshold and value of the event (offset # 0)
eventLeverage(e, offset) ==
    backtestLeverage(IF e.actual.isNull THEN e.consensus ELSE e.actual.v,
                     e.consensus, offset)

\* lines 836-929: the trade simulated and closed
closed(it, exit) ==
    [it EXCEPT !.exit = exit.kind, !.exitIdx = exit.idx,
               !.exitPrice = exit.exitPrice, !.exitTime = exit.exitTime]

\* lines 800-907: the dead zone, then the simulation
traded(f, it) ==
    IF deadZone(it.leverage)
    THEN [it EXCEPT !.exit = "skip:deadZone"]
    ELSE closed(it, simulate(f, it.rel, it.last, it.event.dateUtc,
                             it.leverage, it.entryPrice))

\* lines 774-798: entry price, offset table and leverage
entered(f, it, offset) ==
    IF offset = 0
    THEN [it EXCEPT !.exit = "skip:noOffset", !.entryPrice = barAt(f, it.rel).open]
    ELSE traded(f, [it EXCEPT !.entryPrice = barAt(f, it.rel).open,
                              !.leverage = eventLeverage(it.event, offset)])

\* lines 766-772: the two `continue`s on empty arrays
loaded(f, it) ==
    IF it.first > it.last THEN [it EXCEPT !.exit = "skip:noPrices"]
    ELSE IF it.rel = 0 THEN [it EXCEPT !.exit = "skip:noRelevant"]
    ELSE entered(f, it, offsetOf(it.event.eventId))

withPrices(f, it, prices) ==
    loaded(f, [it EXCEPT !.first = prices.first, !.last = prices.last,
                         !.rel = firstRelevant(f, prices, it.event.dateUtc)])

\* lines 745-765: the search, the skip on 0 and the load
searched(f, e, startPosition) ==
    IF skipPosition(startPosition)
    THEN [noIteration(e, startPosition) EXCEPT !.exit = "skip:precedes"]
    ELSE withPrices(f, noIteration(e, startPosition),
                    loadPricesFromPosition(f, startPosition, e.dateUtc))

\* one iteration of the for-loop (lines 743-930) on event e: what it did
iteration(f, e) == searched(f, e, binarySearchCSV(f, e.dateUtc))

isSkip(it) == it.exit \in {"skip:precedes", "skip:noPrices", "skip:noRelevant",
                           "skip:noOffset", "skip:deadZone"}

\* lines 918-929: results.push, reached unless the iteration `continue`d
pushResult(rs, it) == IF isSkip(it) THEN rs ELSE Append(rs, makeResult(it))

\* the for-loop body as one step: log what the iteration did and push its Result
\* events given to a run: up to MaxEvents, on the files of several windows
\* one or two
eventsOn(f) == IF f.n > 1000 /\ MaxEvents > 2 THEN 2 ELSE MaxEvents

BacktestEvent(e) ==
    /\ mode = "backtest"
    /\ ~saved.written
    /\ evCount < eventsOn(file)
    /\ evCount' = evCount + 1
    /\ log' = Append(log, iteration(file, e))
    /\ results' = pushResult(results, log'[Len(log')])
    /\ UNCHANGED <<mode, file, saved, reread>>
    /\ UNCHANGED liveVars
    /\ UNCHANGED adapterVars
    /\ UNCHANGED pushVars
    /\ UNCHANGED bandVars

(***************************************************************************)
(* The results file.  main (backtester.ts lines 936-953) writes            *)
(* JSON.stringify(backtestResults, null, 2); readResults and readFromFile  *)
(* return JSON.parse of the text, without a reviver.  A JavaScript value   *)
(* is modelled with its type, a JSON member with the kind of its literal;  *)
(* v is the number, the characters of the string or, for a Date and for    *)
(* the ISO-8601 string Date.prototype.toJSON makes of it, the instant.     *)
(***************************************************************************)
\* lines 918-929 and types.ts lines 186-195: the Result object in memory
jsResult(r) ==
    [event |-> [type |-> "string", v |-> r.event],
     entryTime |-> [type |-> "Date", v |-> r.entryTime],
     exitTime |-> [type |-> "Date", v |-> r.exitTime],
     action |-> [type |-> "string", v |-> r.action],
     entryPrice |-> [type |-> "number", v |-> r.entryPrice],
     exitPrice |-> [type |-> "number", v |-> r.exitPrice],
     profitOrLoss |-> [type |-> "number", v |-> r.profitOrLoss],
     amountBTC |-> [type |-> "number", v |-> r.amountBTC]]

\* JSON.stringify of one value: a Date becomes a string literal (toJSON),
\* a finite number a number literal, a string a string literal
stringifyValue(x) ==
    [json |-> IF x.type = "number" THEN "number" ELSE "string", v |-> x.v]

\* JSON.parse of one member: a literal yields a value of its own kind
parseMember(name, m) == [type |-> m.json, v |-> m.v]

JSONstringify(rs) ==
    [i \in DOMAIN rs |-> [name \in DOMAIN jsResult(rs[i]) |-> stringifyValue(jsResult(rs[i])[name])]]

JSONparse(text) ==
    [i \in DOMAIN text |-> [name \in DOMAIN text[i] |-> parseMember(name, text[i][name])]]

\* main, lines 940-950: backtest has returned and the file is written
SaveResults ==
    /\ mode = "backtest"
    /\ ~saved.written
    /\ saved' = [written |-> TRUE, text |-> JSONstringify(results)]
    /\ UNCHANGED <<mode, file, evCount, results, log, reread>>
    /\ UNCHANGED liveVars
    /\ UNCHANGED adapterVars
    /\ UNCHANGED pushVars
    /\ UNCHANGED bandVars

\* readResults (lines 446-449) and readFromFile (utils.ts lines 36-42)
ReadResults ==
    /\ mode = "backtest"
    /\ saved.written
    /\ ~reread.read
    /\ reread' = [read |-> TRUE, results |-> JSONparse(saved.text)]
    /\ UNCHANGED <<mode, file, evCount, results, log, saved>>
    /\ UNCHANGED liveVars
    /\ UNCHANGED adapterVars
    /\ UNCHANGED pushVars
    /\ UNCHANGED bandVars

(***************************************************************************)
(* Inputs of a backtest: price files and events                            *)
(***************************************************************************)
\* (high, low, close) of a bar that opens at 10000
Shapes ==
    { [high |-> 10005, low |-> 9995, close |-> 10001],     \* flat
      [high |-> 10300, low |-> 9700, close |-> 10100],     \* beyond both levels
      [high |-> 10200, low |-> 9990, close |-> 10150],     \* up 2%
      [high |-> 10010, low |-> 9800, close |-> 9850],      \* down 2%
      [high |-> 10016, low |-> 9996, close |-> 10010],     \* up 0.16%
      [high |-> 10004, low |-> 9984, close |-> 9990] }     \* down 0.16%

\* A file also names, in `probes`, the records whose timestamps are tried
\* as event times.
\* timestamps (ms) of the records of a small file: with or without gaps
tsPattern(p, i) ==
    100000 + (IF i = 1 THEN 0
              ELSE IF p = "A" THEN 1000 * (i - 1)
              ELSE IF p = "B" THEN 10000 * (i - 1)
              ELSE 1500000 * (i - 1))

smallFile(p, shapes) ==
    [hdr |-> 38, n |-> Len(shapes), k |-> Len(shapes), l1 |-> 60, l2 |-> 60, nl |-> TRUE,
     bars |-> [i \in 1..Len(shapes) |->
                 [ts |-> tsPattern(p, i), open |-> 10000, high |-> shapes[i].high,
                  low |-> shapes[i].low, close |-> shapes[i].close]],
     probes |-> {1, Len(shapes)}]

\* files of one or two bars in each timestamp pattern; longer files of
\* one-second bars
SmallFiles ==
    { smallFile(p, sh) : p \in {"A", "B", "C"},
                         sh \in UNION { [1..n -> Shapes] : n \in 1..2 } }
        \cup { smallFile("A", sh) : sh \in UNION { [1..n -> Shapes] : n \in 3..MaxBars } }

\* files of several windows of one-second bars: one of 60-byte records whose
\* record 833 straddles byte 50000, one of 60- and 64-byte records whose
\* last record has no line feed
BigFiles ==
    { [hdr |-> 38, n |-> 2498, k |-> 2498, l1 |-> 60, l2 |-> 60, nl |-> TRUE,
       bars |-> <<>>, probes |-> {1, 833, 834, 2498}],
      [hdr |-> 38, n |-> 1700, k |-> 1000, l1 |-> 60, l2 |-> 64, nl |-> FALSE,
       bars |-> <<>>, probes |-> {1700}] }

\* files of three bars 10 s apart: two quiet bars, then a bar of any shape
HeldFiles ==
    { smallFile("B", <<[high |-> 10005, low |-> 9995, close |-> 10001],
                       [high |-> 10005, low |-> 9995, close |-> 10001], sh>>) : sh \in Shapes }

\* the empty file: no header, no record, no line feed
EmptyFile ==
    [hdr |-> 0, n |-> 0, k |-> 0, l1 |-> 60, l2 |-> 60, nl |-> FALSE,
     bars |-> <<>>, probes |-> {}]

Files == SmallFiles \cup BigFiles \cup HeldFiles \cup {EmptyFile}

\* event times tried on a file: at the probed records; on the one-record
\* files and the files of several windows also before the first record and
\* after the last; on the latter also between the first two records; two
\* times on the empty file
EventTimes(f) ==
    IF f.n = 0 THEN {1000, 834000}
    ELSE {barAt(f, i).ts : i \in f.probes}
        \cup (IF Len(f.bars) >= 2 THEN {}
              ELSE {barAt(f, 1).ts - 1000, barAt(f, f.n).ts + 1000})
        \cup (IF Len(f.bars) = 0 THEN {barAt(f, 1).ts + 500} ELSE {})

Val(x) == [isNull |-> FALSE, v |-> x]
Null == [isNull |-> TRUE, v |-> 0]

\* (eventId, name, actual, consensus) of the events tried
EventKinds ==
    { [eventId |-> ID_CPI, name |-> "CPI", actual |-> Val(28), consensus |-> 30],
      [eventId |-> ID_CPI, name |-> "CPI", actual |-> Val(50), consensus |-> 30],
      [eventId |-> ID_CPI, name |-> "CPI", actual |-> Val(31), consensus |-> 30],
      [eventId |-> ID_CPI, name |-> "CPI", actual |-> Null, consensus |-> 30],
      [eventId |-> ID_NFP, name |-> "NFP", actual |-> Val(90000), consensus |-> 180000],
      [eventId |-> ID_NFP, name |-> "NFP", actual |-> Val(195000), consensus |-> 180000],
      [eventId |-> ID_NFP, name |-> "NFP", actual |-> Val(194999), consensus |-> 180000],
      [eventId |-> ID_FOMC, name |-> "FOMC", actual |-> Val(550), consensus |-> 525],
      [eventId |-> ID_OTHER, name |-> "PMI", actual |-> Val(50), consensus |-> 30] }

mkEvent(kind, t) ==
    [eventId |-> kind.eventId, name |-> kind.name, dateUtc |-> t,
     actual |-> kind.actual, consensus |-> kind.consensus]

\* a short at every time tried; on the small files also a long at the first
\* record's time, and on the one-record files every kind at that time
Events(f) ==
    { mkEvent(kind, t) : t \in EventTimes(f),
        kind \in { k \in EventKinds : k.name = "CPI" /\ k.actual = Val(50) } }
        \cup { mkEvent(kind, barAt(f, 1).ts) :
                 kind \in { k \in EventKinds :
                              /\ Len(f.bars) > 0
                              /\ (Len(f.bars) = 1 \/ (k.name = "CPI" /\ k.actual = Val(28))) } }

InitBT ==
    /\ mode = "backtest"
    /\ file \in Files
    /\ evCount = 0 /\ results = <<>> /\ log = <<>>
    /\ saved = NotWritten /\ reread = NotRead
    /\ cfg = CHOOSE c \in Configs : TRUE
    /\ lpc = "start" /\ proxies = 0
    /\ strategy_executed = FALSE /\ timerActive = FALSE
    /\ proxyIndex = 0 /\ ticks = 0 /\ inflight = {} /\ fetchLog = <<>>
    /\ execCount = 0 /\ nonNull = 0 /\ unhandled = 0
    /\ spc = "idle" /\ strat = NoStrat /\ position = NoPosition /\ calls = <<>>
    /\ call = NoCall /\ ret = NotReturned /\ requests = <<>>
    /\ runs = <<>>
    /\ pushIdle

NextBT ==
    \/ mode = "backtest" /\ \E e \in Events(file) : BacktestEvent(e)
    \/ SaveResults
    \/ ReadResults

SpecBT == InitBT /\ [][NextBT]_vars

(***************************************************************************)
(* One call of an exported adapter operation, for every combination of     *)
(* replies to the HTTP steps it can reach.                                  *)
(***************************************************************************)
AdapterCalls ==
    { AdapterCall(op, FALSE, FALSE, po, pp, o, p) :
        op \in MarketOps, po \in Replies, pp \in Replies, o \in Replies, p \in Replies }
    \cup { AdapterCall(op, FALSE, TRUE, OkReply, OkReply, o, p) :
        op \in MarketOps, o \in Replies, p \in Replies }
    \cup { AdapterCall(op, TRUE, h, po, OkReply, o, OkReply) :
        op \in MarketOps \cup LimitOps, h \in BOOLEAN,
        po \in {OkReply, [status |-> 0, isSuccess |-> FALSE, hasData |-> FALSE]},
        o \in {OkReply, [status |-> 500, isSuccess |-> FALSE, hasData |-> FALSE]} }
    \cup { AdapterCall(op, FALSE, FALSE, OkReply, OkReply, o, p) :
        op \in LimitOps \cup DataOps, o \in Replies, p \in Replies }
    \cup { AdapterCall("getCurrentPrice", FALSE, FALSE, po, pp, OkReply, OkReply) :
        po \in Replies, pp \in Replies }

InitAdapter ==
    /\ mode = "adapter"
    /\ call \in AdapterCalls
    /\ ret = NotReturned /\ requests = <<>> /\ runs = <<>>
    /\ pushIdle
    /\ cfg = CHOOSE c \in Configs : TRUE
    /\ lpc = "start" /\ proxies = 0
    /\ strategy_executed = FALSE /\ timerActive = FALSE
    /\ proxyIndex = 0 /\ ticks = 0 /\ inflight = {} /\ fetchLog = <<>>
    /\ execCount = 0 /\ nonNull = 0 /\ unhandled = 0
    /\ spc = "idle" /\ strat = NoStrat /\ position = NoPosition /\ calls = <<>>
    /\ file = <<>> /\ evCount = 0 /\ results = <<>> /\ log = <<>>
    /\ saved = NotWritten /\ reread = NotRead

\* the operation runs to its return
Invoke ==
    /\ mode = "adapter" /\ ret = NotReturned
    /\ ret' = adapterReturn(call).result
    /\ requests' = adapterReturn(call).requests
    /\ UNCHANGED <<mode, call>>
    /\ UNCHANGED liveVars
    /\ UNCHANGED btVars
    /\ UNCHANGED bandVars
    /\ UNCHANGED pushVars

NextAdapter == Invoke

SpecAdapter == InitAdapter /\ [][NextAdapter]_vars

(***************************************************************************)
(* The fixed-band variant: src/src/strategy.ts, launchAlgorithm lines 51-93 *)
(* and executeCPI/GDP/PCETradingStrategy lines 101-243.  Its timer callback *)
(* tests strategy_executed only when it starts.  The page shows one         *)
(* published value: a fetch returns it, or null.                            *)
(***************************************************************************)
\* threshold and band in tenths; the thresholds of the README and one more
BandIndicators ==
    { [name |-> "CPI", threshold |-> 5, band |-> 1],
      [name |-> "CPI", threshold |-> 7, band |-> 1],
      [name |-> "GDP", threshold |-> 13, band |-> 2],
      [name |-> "GDP", threshold |-> 14, band |-> 2],
      [name |-> "PCE", threshold |-> 26, band |-> 2],
      [name |-> "PCE", threshold |-> 16, band |-> 2] }

PublishedValues(ind) ==
    { ind.threshold - ind.band - 1, ind.threshold - ind.band, ind.threshold,
      ind.threshold + ind.band, ind.threshold + ind.band + 1 }

BandConfigs ==
    { [ind |-> i, published |-> v, NO_PROXY |-> np, NO_RECURRENT_FETCH |-> nr,
       amt |-> [AMOUNT |-> 100, MAX_AMOUNT |-> 250]] :
        i \in BandIndicators, v \in 1..40, np \in BOOLEAN, nr \in BOOLEAN }

\* lines 110/124, 160/174, 210/224: value > THRESHOLD + band, value < THRESHOLD - band
aboveBand(value, threshold, band) == fgt(value, fadd(threshold, band))

belowBand(value, threshold, band) == fgt(fsub(threshold, band), value)

\* the branch an execute*TradingStrategy takes: CPI and PCE short above,
\* GDP short below
bandSide(name, above, below) ==
    IF name = "GDP"
    THEN IF below THEN "short" ELSE IF above THEN "long" ELSE "none"
    ELSE IF above THEN "short" ELSE IF below THEN "long" ELSE "none"

bandDecision(ind, v) ==
    bandSide(ind.name,
             aboveBand(toDouble(v), toDouble(ind.threshold), toDouble(ind.band)),
             belowBand(toDouble(v), toDouble(ind.threshold), toDouble(ind.band)))

\* an invocation of the strategy up to `await initQuantfury(proxy)`
startRun(ind, v) ==
    [value |-> v, side |-> bandDecision(ind, v),
     pc |-> IF bandDecision(ind, v) = "none" THEN "done" ELSE "init", ret |-> "none"]

bandOpenCall(i, side, amount) ==
    [op |-> IF side = "short" THEN "openMarketShortPosition" ELSE "openMarketLongPosition",
     amount |-> amount, run |-> i]

InitBand ==
    /\ mode = "band"
    /\ cfg \in { c \in BandConfigs : c.published \in PublishedValues(c.ind) }
    /\ lpc = "start" /\ proxies = 0
    /\ strategy_executed = FALSE /\ timerActive = FALSE
    /\ proxyIndex = 0 /\ ticks = 0 /\ inflight = {} /\ fetchLog = <<>>
    /\ execCount = 0 /\ nonNull = 0 /\ unhandled = 0
    /\ spc = "idle" /\ strat = NoStrat /\ position = NoPosition /\ calls = <<>>
    /\ file = <<>> /\ evCount = 0 /\ results = <<>> /\ log = <<>>
    /\ saved = NotWritten /\ reread = NotRead
    /\ call = NoCall /\ ret = NotReturned /\ requests = <<>>
    /\ runs = <<>>
    /\ pushIdle

\* launchAlgorithm lines 56-66
LaunchBand(n) ==
    /\ mode = "band" /\ lpc = "start"
    /\ proxies' = IF cfg.NO_PROXY THEN 0 ELSE n
    /\ IF ~cfg.NO_PROXY /\ n = 0
       THEN lpc' = "exited" /\ timerActive' = FALSE
       ELSE lpc' = "polling" /\ timerActive' = TRUE
    /\ UNCHANGED <<unhandled, mode, cfg, strategy_executed, proxyIndex, ticks, inflight,
                   fetchLog, execCount, nonNull, spc, strat, position, calls>>
    /\ UNCHANGED <<btVars, adapterVars, bandVars, pushVars>>

\* lines 68-76: a timer callback up to `await checkValueFunction(proxy)`
TickBand ==
    /\ mode = "band" /\ lpc = "polling" /\ timerActive
    /\ ticks < MaxBandTicks
    /\ ticks' = ticks + 1
    /\ IF strategy_executed
       THEN timerActive' = FALSE /\ UNCHANGED <<proxyIndex, inflight, fetchLog>>
       ELSE /\ timerActive' = IF cfg.NO_RECURRENT_FETCH THEN FALSE ELSE timerActive
            /\ fetchLog' = Append(fetchLog,
                   IF cfg.NO_PROXY THEN null ELSE proxyAt(proxyIndex, proxies))
            /\ proxyIndex' = nextProxyIndex(proxyIndex, proxies)
            /\ inflight' = inflight \cup {ticks + 1}
    /\ UNCHANGED <<unhandled, mode, cfg, lpc, proxies, strategy_executed, execCount,
                   nonNull, spc, strat, position, calls>>
    /\ UNCHANGED <<btVars, adapterVars, bandVars, pushVars>>

\* lines 76-92: the continuation of a tick; `if (value !== null)` and
\* the strategy up to its first await
FetchReturnBand(f, isNull) ==
    /\ mode = "band" /\ f \in inflight
    /\ inflight' = inflight \ {f}
    /\ IF ~isNull
       THEN /\ nonNull' = nonNull + 1
            /\ strategy_executed' = TRUE
            /\ timerActive' = FALSE
            /\ execCount' = execCount + 1
            /\ runs' = Append(runs, startRun(cfg.ind, cfg.published))
            /\ calls' = IF runs'[Len(runs')].pc = "done" THEN calls
                        ELSE Append(calls, [op |-> "initQuantfury", amount |-> 0,
                                            run |-> Len(runs')])
       ELSE UNCHANGED <<nonNull, strategy_executed, timerActive, execCount, runs, calls>>
    /\ UNCHANGED <<unhandled, mode, cfg, lpc, proxies, proxyIndex, ticks, fetchLog,
                   spc, strat, position>>
    /\ UNCHANGED <<btVars, adapterVars, pushVars>>

\* lines 115-116 (and the five like them): initQuantfury resolved, the
\* open call is issued
InitReturnBand(i) ==
    /\ mode = "band" /\ i \in 1..Len(runs) /\ runs[i].pc = "init"
    /\ calls' = Append(calls, bandOpenCall(i, runs[i].side, cfg.amt.AMOUNT))
    /\ runs' = [runs EXCEPT ![i].pc = "open"]
    /\ UNCHANGED <<unhandled, mode, cfg, lpc, proxies, strategy_executed, timerActive,
                   proxyIndex, ticks, inflight, fetchLog, execCount, nonNull,
                   spc, strat, position>>
    /\ UNCHANGED <<btVars, adapterVars, pushVars>>

\* lines 117-123: the open call resolved and the outcome is logged
OpenReturnBand(i, res) ==
    /\ mode = "band" /\ i \in 1..Len(runs) /\ runs[i].pc = "open"
    /\ runs' = [runs EXCEPT ![i].pc = "done", ![i].ret = res]
    /\ UNCHANGED <<unhandled, mode, cfg, lpc, proxies, strategy_executed, timerActive,
                   proxyIndex, ticks, inflight, fetchLog, execCount, nonNull,
                   spc, strat, position, calls>>
    /\ UNCHANGED <<btVars, adapterVars, pushVars>>

NextBand ==
    \/ \E n \in 0..1 : LaunchBand(n)
    \/ TickBand
    \/ \E f \in inflight : \E isNull \in BOOLEAN : FetchReturnBand(f, isNull)
    \/ \E i \in 1..Len(runs) : InitReturnBand(i)
    \/ \E i \in 1..Len(runs) : \E res \in OpenReturns : OpenReturnBand(i, res)

SpecBand == InitBand /\ [][NextBand]_vars

(***************************************************************************)
(* The price-push handler, quantfuryAttackStrategy.ts.  Node.js runs a     *)
(* handlePrice call without interruption up to its first await on a        *)
(* pending promise; further calls run while one is suspended.              *)
(***************************************************************************)
\* line 36: `threshold` = QUANTFURY_HACK_PRICE_THRESHOLD, in price units
priceThreshold == 100

Price(id, shortName, price) ==
    [isNull |-> FALSE, id |-> id, shortName |-> shortName, price |-> price]

\* request bodies: three BTC/USDT prices, a price of another instrument, null
Bodies ==
    { Price("a", "BTC/USDT", 60000), Price("b", "BTC/USDT", 60150),
      Price("c", "BTC/USDT", 59850), Price("e", "ETH/USDT", 3000), NullPrice }

\* lines 54-63 (the typeof tests hold of every Price record)
isValidPrice(price) == ~price.isNull /\ price.shortName = "BTC/USDT"

\* lines 71-80
determineOperationType(priceDifference) ==
    IF priceDifference < -priceThreshold THEN "short"
    ELSE IF priceDifference > priceThreshold THEN "long"
    ELSE "null"

\* when a response is sent: before any operation, while executeTradingOperation
\* is pending, or after it
phase == IF pending.active THEN "pending" ELSE IF opCalls > 0 THEN "after" ELSE "before"

Response(code, status, message, own) ==
    [code |-> code, status |-> status, message |-> message, phase |-> phase, own |-> own]

send(r) == responses' = Append(responses, r)

\* lines 188-200: the statements after `await executeTradingOperation`;
\* currentPrice.price of a null currentPrice throws into the catch block
afterOperation(cur) ==
    /\ operationInProgress' = FALSE
    /\ operationCompleted' = TRUE
    /\ IF cur.isNull
       THEN /\ lastPrice' = lastPrice
            /\ send(Response(500, "error", "Error handling price", TRUE))
       ELSE /\ lastPrice' = cur
            /\ send(Response(200, "success", "Operation triggered", TRUE))

\* lines 144-219: a handlePrice call from its start to its response or to
\* `await executeTradingOperation`.  With NO_TRADING the operation (lines
\* 104-107) awaits nothing and the call runs on to its response.
handlePrice(body) ==
    /\ mode = "push"
    /\ Len(responses) + (IF pending.active THEN 1 ELSE 0) < MaxRequests
    /\ currentPrice' = body
    /\ IF operationInProgress
       THEN /\ send(Response(200, "no_action", "Operation in progress", FALSE))
            /\ UNCHANGED <<lastPrice, operationInProgress, operationCompleted,
                           pending, opCalls, opens>>
       ELSE IF operationCompleted
       THEN /\ send(Response(200, "no_action", "Operation already completed", FALSE))
            /\ UNCHANGED <<lastPrice, operationInProgress, operationCompleted,
                           pending, opCalls, opens>>
       ELSE IF ~isValidPrice(body)
       THEN /\ send(Response(400, "error", "Invalid price object", FALSE))
            /\ UNCHANGED <<lastPrice, operationInProgress, operationCompleted,
                           pending, opCalls, opens>>
       ELSE IF lastOperation # "null"
       THEN /\ send(Response(200, "no_action", "No action during an open position", FALSE))
            /\ UNCHANGED <<lastPrice, operationInProgress, operationCompleted,
                           pending, opCalls, opens>>
       ELSE IF ~lastPrice.isNull
               /\ determineOperationType(body.price - lastPrice.price) # "null"
       THEN /\ opCalls' = opCalls + 1
            /\ IF NO_TRADING
               THEN /\ afterOperation(body)
                    /\ UNCHANGED <<pending, opens>>
               ELSE /\ operationInProgress' = TRUE
                    /\ opens' = opens + 1
                    /\ pending' = [active |-> TRUE,
                                   operationType |->
                                       determineOperationType(body.price - lastPrice.price),
                                   openPrice |-> lastPrice.price]
                    /\ UNCHANGED <<lastPrice, operationCompleted, responses>>
       ELSE /\ lastPrice' = body
            /\ send(Response(200, "no_action", "No operation triggered", FALSE))
            /\ UNCHANGED <<operationInProgress, operationCompleted, pending,
                           opCalls, opens>>
    /\ UNCHANGED <<mode, NO_TRADING, lastOperation>>
    /\ UNCHANGED liveVars
    /\ UNCHANGED btVars
    /\ UNCHANGED adapterVars
    /\ UNCHANGED bandVars

\* lines 123-134, 188-200 and 210-218: the open call returned.  With `data` the
\* position is kept and the handler goes on; without, executeTradingOperation
\* throws and the catch block of handlePrice answers.
operationReturns(hasData) ==
    /\ mode = "push" /\ pending.active
    /\ pending' = NotPending
    /\ IF hasData
       THEN /\ lastOperation' = "position"
            /\ afterOperation(currentPrice)
       ELSE /\ operationCompleted' = TRUE
            /\ send(Response(500, "error", "Error handling price", TRUE))
            /\ UNCHANGED <<lastOperation, operationInProgress, lastPrice>>
    /\ UNCHANGED <<mode, NO_TRADING, currentPrice, opCalls, opens>>
    /\ UNCHANGED liveVars
    /\ UNCHANGED btVars
    /\ UNCHANGED adapterVars
    /\ UNCHANGED bandVars

InitPush ==
    /\ mode = "push"
    /\ NO_TRADING \in BOOLEAN
    /\ lastPrice = NullPrice /\ currentPrice = NullPrice /\ lastOperation = "null"
    /\ operationCompleted = FALSE /\ operationInProgress = FALSE
    /\ pending = NotPending /\ responses = <<>> /\ opCalls = 0 /\ opens = 0
    /\ cfg = CHOOSE c \in Configs : TRUE
    /\ lpc = "start" /\ proxies = 0
    /\ strategy_executed = FALSE /\ timerActive = FALSE
    /\ proxyIndex = 0 /\ ticks = 0 /\ inflight = {} /\ fetchLog = <<>>
    /\ execCount = 0 /\ nonNull = 0 /\ unhandled = 0
    /\ spc = "idle" /\ strat = NoStrat /\ position = NoPosition /\ calls = <<>>
    /\ file = <<>> /\ evCount = 0 /\ results = <<>> /\ log = <<>>
    /\ saved = NotWritten /\ reread = NotRead
    /\ call = NoCall /\ ret = NotReturned /\ requests = <<>>
    /\ runs = <<>>

NextPush ==
    \/ \E body \in Bodies : handlePrice(body)
    \/ \E hasData \in BOOLEAN : operationReturns(hasData)

SpecPush == InitPush /\ [][NextPush]_vars

Init == InitLive \/ InitBT \/ InitAdapter \/ InitBand \/ InitPush

Next == NextLive \/ NextBT \/ NextAdapter \/ NextBand \/ NextPush

Spec == Init /\ [][Next]_vars

(***************************************************************************)
(* Properties                                                              *)
(***************************************************************************)
NotSkip(it) == ~isSkip(it)

\* the iterations that pushed a Result, in order: trades[k] pushed results[k]
trades == SelectSeq(log, NotSkip)

strategyStarted == mode = "live" /\ spc # "idle"

\* value and threshold of a logged backtest iteration
valueOf(it) == IF it.event.actual.isNull THEN it.event.consensus ELSE it.event.actual.v

\* the iteration got as far as computing a leverage
reachedLeverage(it) ==
    it.exit \notin {"skip:precedes", "skip:noPrices", "skip:noRelevant", "skip:noOffset"}

InBand(value, threshold, offset) == Abs(value - threshold) < Abs(offset)

\* C1: launchAlgorithm invokes executeStrategyFunction at most once per run,
\* whatever the interleaving of ticks and fetch completions, and exactly once
\* as soon as some fetch has returned a non-null value.
C1_ExecutesOnce ==
    mode = "live" =>
        /\ execCount <= 1
        /\ (nonNull >= 1 => execCount = 1)
        /\ (execCount = 1 => strategy_executed /\ ~timerActive)

\* two overlapping fetches both returned a non-null value
C1_Witness == mode = "live" /\ nonNull >= 2 /\ execCount = 1 /\ ticks >= 2

\* C2: a leverage strictly between -1 and 1, i.e. |value - threshold| <
\* |offset|, yields no trade: the live strategy issues no broker call and the
\* backtest pushes no Result for the event.
C2_DeadZone ==
    /\ strategyStarted =>
         ((InBand(strat.value, cfg.ind.threshold, cfg.ind.offset)
             \/ (strat.leverage > -1 /\ strat.leverage < 1))
          => calls = <<>> /\ spc = "done")
    /\ mode = "backtest" =>
         /\ Len(results) = Len(trades)
         /\ \A i \in 1..Len(log) :
              (offsetOf(log[i].event.eventId) # 0
                 /\ InBand(valueOf(log[i]), log[i].event.consensus,
                           offsetOf(log[i].event.eventId)))
              => isSkip(log[i])
         /\ \A i \in 1..Len(log) :
              (reachedLeverage(log[i]) /\ log[i].leverage > -1 /\ log[i].leverage < 1)
              => isSkip(log[i])

\* threshold 1.3, offset 0.2, value 1.35: the strategy ended without a call
C2_Witness ==
    /\ strategyStarted /\ spc = "done" /\ calls = <<>>
    /\ cfg.ind.name = "GDP" /\ strat.value = 135
    /\ cfg.amt.AMOUNT = 200000

\* the leverage the claim C3 describes: the raw leverage limited in magnitude
\* to maxLev with its sign kept, then negated for an inverse relation
clampedExpected(raw, maxLev, direction) ==
    LET mag == IF Abs(raw) > maxLev THEN maxLev ELSE Abs(raw)
    IN  (IF direction THEN 1 ELSE -1) * Sign(raw) * mag

\* C3: with maxLeverage = floor(MAX_AMOUNT / AMOUNT) the leverage has
\* magnitude at most maxLeverage, exactly maxLeverage when the raw truncated
\* leverage exceeds it, and the sign of the raw leverage before the flip.
C3_Clamp ==
    /\ strategyStarted =>
         LET raw == TruncQuot(strat.value - cfg.ind.threshold, cfg.ind.offset)
             m == cfg.amt.MAX_AMOUNT \div cfg.amt.AMOUNT
         IN  /\ Abs(strat.leverage) <= m
             /\ (Abs(raw) > m => Abs(strat.leverage) = m)
             /\ strat.leverage = clampedExpected(raw, m, cfg.ind.direction)
    /\ mode = "backtest" =>
         \A i \in 1..Len(log) : reachedLeverage(log[i]) =>
             LET raw == TruncQuot(valueOf(log[i]) - log[i].event.consensus,
                                  offsetOf(log[i].event.eventId))
                 m == BT_MAX_AMOUNT \div BT_AMOUNT
             IN  /\ Abs(log[i].leverage) <= m
                 /\ (Abs(raw) > m => Abs(log[i].leverage) = m)
                 /\ log[i].leverage = clampedExpected(raw, m, FALSE)

\* MAX_AMOUNT 1,000,000, AMOUNT 200,000, raw leverage 11 -> 5 -> -5
C3_Witness ==
    /\ strategyStarted /\ cfg.ind.name = "GDP" /\ strat.value = 350
    /\ cfg.amt.AMOUNT = 200000 /\ cfg.amt.MAX_AMOUNT = 1000000
    /\ TruncQuot(strat.value - cfg.ind.threshold, cfg.ind.offset) = 11
    /\ strat.leverage = -5

opensOf(cs) == SelectSeq(cs, LAMBDA c : c.op \in {"openMarketLongPosition", "openMarketShortPosition"})

firstAtOrAfter(f, t) ==
    IF \E j \in 1..f.n : barAt(f, j).ts >= t
    THEN CHOOSE j \in 1..f.n :
            /\ barAt(f, j).ts >= t
            /\ \A h \in 1..(j - 1) : barAt(f, h).ts < t
    ELSE 0

presentIn(f, t) == \E j \in 1..f.n : barAt(f, j).ts = t

\* C5: for a timestamp T present in the sorted price file, binarySearchCSV
\* returns the byte offset of the start of the record with the smallest
\* timestamp >= T, neither an earlier nor a later record.
C5_IndexExact ==
    mode = "backtest" =>
        \A i \in 1..Len(log) :
            presentIn(file, log[i].event.dateUtc) =>
                log[i].startPosition =
                    RecStart(file, firstAtOrAfter(file, log[i].event.dateUtc))

\* C6: binarySearchCSV returns 0 exactly when the event time precedes the
\* first stored record, and backtest then skips the event without streaming
\* bars or pushing a Result.
C6_PrecedesHistory ==
    mode = "backtest" =>
        \A i \in 1..Len(log) :
            /\ log[i].event.dateUtc < barAt(file, 1).ts =>
                  /\ log[i].startPosition = 0
                  /\ log[i].exit = "skip:precedes"
            /\ log[i].startPosition = 0 =>
                  log[i].event.dateUtc < barAt(file, 1).ts

\* C7: for a target later than the last record binarySearchCSV returns the
\* last candidate offset, not 0; the caller finds no bar at or after the
\* event time in the stream and the event produces no Result.
C7_AfterLastRecord ==
    mode = "backtest" =>
        \A i \in 1..Len(log) :
            (file.n > 0 /\ log[i].event.dateUtc > barAt(file, file.n).ts) =>
                /\ log[i].startPosition # 0
                /\ log[i].exit \in {"skip:noPrices", "skip:noRelevant"}

\* the levels of a trade, from the claim's definitions (E4)
tpLevel(it) == it.entryPrice * (IF it.leverage > 0 THEN 10200 ELSE 9800)
slLevel(it) == it.entryPrice * (IF it.leverage > 0 THEN 9980 ELSE 10020)
rtLevel(it) == it.entryPrice * (IF it.leverage > 0 THEN 10015 ELSE 9985)

touchesTP(it, bar) ==
    IF it.leverage > 0 THEN bar.high * 10000 >= tpLevel(it) ELSE bar.low * 10000 <= tpLevel(it)

touchesSL(it, bar) ==
    IF it.leverage > 0 THEN bar.low * 10000 <= slLevel(it) ELSE bar.high * 10000 >= slLevel(it)

touchesRT(it, bar) ==
    IF it.leverage > 0 THEN bar.high * 10000 >= rtLevel(it) ELSE bar.low * 10000 <= rtLevel(it)

\* the position of trade `it` is still open when bar j is examined
openAt(it, j) == it.exitIdx = 0 \/ it.exitIdx >= j

\* the bars the simulator examines for trade `it`
barsOf(it) == { j \in it.rel..it.last : barAt(file, j).ts >= it.event.dateUtc }

\* C8: on a bar that touches both the take-profit and the stop-loss level
\* while the position is open, the trade exits at exactly takeProfitPrice,
\* never at stopLossPrice; and a bar that touches either level is never
\* closed by a timeout rule.
C8_ExitPrecedence ==
    mode = "backtest" =>
        /\ Len(results) = Len(trades)
        /\ \A k \in 1..Len(trades) :
             LET it == trades[k] IN
             /\ \A j \in barsOf(it) :
                  (openAt(it, j) /\ touchesTP(it, barAt(file, j)) /\ touchesSL(it, barAt(file, j)))
                  => /\ it.exitIdx = j
                     /\ it.exit = "tp"
                     /\ it.exitPrice = tpLevel(it)
                     /\ it.exitPrice # slLevel(it)
                     /\ results[k].exitPrice = toFixed2(tpLevel(it))
                     /\ results[k].exitTime = barAt(file, j).ts
             /\ it.exit \in {"nomove", "maxhold"} =>
                  /\ ~touchesTP(it, barAt(file, it.exitIdx))
                  /\ ~touchesSL(it, barAt(file, it.exitIdx))

\* a long and a short both took profit on a bar that also touched the stop
C8_Witness ==
    /\ mode = "backtest" /\ Len(trades) = 2
    /\ trades[1].leverage > 0 /\ trades[2].leverage < 0
    /\ \A k \in 1..2 :
         /\ trades[k].exit = "tp"
         /\ touchesSL(trades[k], barAt(file, trades[k].exitIdx))
         /\ touchesTP(trades[k], barAt(file, trades[k].exitIdx))

\* the first examined bar at least 10 s after the event (0: none)
graceBar(it) ==
    IF \E j \in barsOf(it) : barAt(file, j).ts - it.event.dateUtc >= 10000
    THEN CHOOSE j \in barsOf(it) :
            /\ barAt(file, j).ts - it.event.dateUtc >= 10000
            /\ \A h \in barsOf(it) : h < j => barAt(file, h).ts - it.event.dateUtc < 10000
    ELSE 0

\* no bar from entry through the grace bar touches a level
quietThrough(it, g) ==
    \A j \in barsOf(it) : j <= g =>
        /\ ~touchesTP(it, barAt(file, j))
        /\ ~touchesSL(it, barAt(file, j))
        /\ ~touchesRT(it, barAt(file, j))

reducesOf(cs) == SelectSeq(cs, LAMBDA c : c.op = "reducePosition")

ordersOfType(cs, t) == SelectSeq(cs, LAMBDA c : c.op = "reducePosition" /\ c.orderType = t)

\* C11: the exit orders attached in live mode follow the simulator's sign
\* rule: for a LONG position stopLossPrice < openPrice < takeProfitPrice, for
\* a SHORT position takeProfitPrice < openPrice < stopLossPrice.
C11_LiveExitSigns ==
    (strategyStarted /\ position # NoPosition) =>
        /\ \A i \in 1..Len(ordersOfType(calls, "TARGET")) :
             LET tp == ordersOfType(calls, "TARGET")[i].price * 100
             IN  IF strat.leverage >= 1 THEN position.openPrice < tp
                 ELSE tp < position.openPrice
        /\ \A i \in 1..Len(ordersOfType(calls, "STOP")) :
             LET sl == ordersOfType(calls, "STOP")[i].price * 100
             IN  IF strat.leverage >= 1 THEN sl < position.openPrice
                 ELSE position.openPrice < sl

\* the open-market call of the strategy has returned an error object
openFailed ==
    /\ strategyStarted /\ ~deadZone(strat.leverage)
    /\ spc \notin {"init", "open"} /\ position = NoPosition

\* C12: when the open-market call returns an error object,
\* executeTradingStrategy returns normally without submitting any
\* take-profit or stop-loss reduce order: no exception reaches the polling
\* loop, and the strategy is not attempted again (one open call, one
\* execution).
C12_OpenErrorHandled ==
    openFailed =>
        /\ spc = "done"
        /\ reducesOf(calls) = <<>>
        /\ Len(opensOf(calls)) = 1
        /\ execCount = 1
        /\ unhandled = 0 /\ lpc # "crashed"

\* the open call failed while the timer had fired again afterwards
C12_Witness ==
    /\ openFailed /\ spc = "done" /\ "error" \in OpenReturns
    /\ Len(calls) = 2 /\ ticks >= 2 /\ inflight = {}

\* C13: every exported operation of the broker adapter (openMarketPosition
\* and its long/short/extended wrappers, openLimitPosition,
\* cancelLimitPosition, reducePosition, closePosition, getPositions) returns
\* either a success payload or a typed APIError, whatever the outcome of its
\* HTTP steps (price fetch failure, OPTIONS failure, POST failure, non-200
\* status, isSuccess = false); none of them throws.
C13_AdapterNeverThrows ==
    (mode = "adapter" /\ ret # NotReturned /\ call.op # "getCurrentPrice") =>
        /\ ret.kind \in {"ok", "error"}
        /\ ret.kind = "error" => ret.error # ""

\* C14: with NO_RECURRENT_FETCH the timer is cancelled on the first tick,
\* before the fetch: checkValueFunction is called at most once in the run,
\* and executeStrategyFunction runs only if that single fetch returned a
\* non-null value.
C14_SingleFetch ==
    (mode = "live" /\ cfg.NO_RECURRENT_FETCH) =>
        /\ Len(fetchLog) <= 1
        /\ Len(fetchLog) = 1 => ~timerActive
        /\ execCount >= 1 => (Len(fetchLog) = 1 /\ nonNull = 1 /\ execCount = 1)
        /\ (Len(fetchLog) = 1 /\ inflight = {} /\ nonNull = 0) => execCount = 0

\* the single fetch returned null and the run is over without a strategy
C14_Witness ==
    /\ mode = "live" /\ cfg.NO_RECURRENT_FETCH
    /\ Len(fetchLog) = 1 /\ inflight = {} /\ nonNull = 0
    /\ execCount = 0 /\ ~timerActive /\ spc = "idle"

recurring == mode = "live" /\ ~cfg.NO_RECURRENT_FETCH /\ lpc = "polling"

\* C15: in recurring mode a null fetch leaves the timer active and
\* strategy_executed false, and the next tick fetches again; under fair
\* scheduling, once a fetch returns a non-null value executeStrategyFunction
\* is invoked, and from then on no tick starts a new fetch.  (The model runs
\* MaxTicks timer callbacks; "fetches again" is stated for the ticks it has.)
C15_RecurringRetry ==
    /\ [](recurring /\ ~strategy_executed => timerActive /\ execCount = 0)
    /\ \A k \in 0..(MaxTicks - 1) :
          (recurring /\ ~strategy_executed /\ Len(fetchLog) = k)
              ~> (Len(fetchLog) > k \/ strategy_executed)
    /\ (mode = "live" /\ nonNull >= 1) ~> (execCount = 1 /\ strategy_executed)
    /\ [][strategy_executed => fetchLog' = fetchLog /\ strategy_executed']_vars

\* two fetches returned null, the third a value, and the strategy ran
C15_Witness ==
    /\ recurring /\ Len(fetchLog) = 3 /\ nonNull = 1 /\ inflight = {}
    /\ execCount = 1 /\ strategy_executed /\ ~timerActive

\* C16: with N >= 1 proxies the k-th tick that fetches (k = 0, 1, 2, ...)
\* hands proxies[k mod N] to checkValueFunction and the index stays within
\* 0..N-1, wrapping around, also when ticks overlap; in NO_PROXY mode every
\* fetch receives null and the strategy receives a null proxy.
C16_RoundRobin ==
    (mode = "live" /\ lpc \in {"polling", "crashed"}) =>
        IF cfg.NO_PROXY
        THEN /\ \A i \in 1..Len(fetchLog) : fetchLog[i] = null
             /\ strategyStarted => strat.proxy = null
        ELSE /\ proxies >= 1
             /\ proxyIndex \in 0..(proxies - 1)
             /\ proxyIndex = Len(fetchLog) % proxies
             /\ \A i \in 1..Len(fetchLog) : fetchLog[i] = proxyAt((i - 1) % proxies, proxies)

\* three overlapping fetches over two proxies: the third wrapped to the first
C16_Witness ==
    /\ mode = "live" /\ ~cfg.NO_PROXY /\ proxies = 2
    /\ Len(fetchLog) = 3 /\ Cardinality(inflight) >= 2
    /\ fetchLog[3] = fetchLog[1] /\ fetchLog[2] # fetchLog[1]

\* getProxies returned an empty list while NO_PROXY is off
emptyProxyList == mode = "live" /\ ~cfg.NO_PROXY /\ lpc # "start" /\ proxies = 0

\* C17 (as stated): when the proxy source returns an empty list the live
\* loop operates proxyless: launchAlgorithm still starts polling and calls
\* the indicator fetch with a null proxy.
C17_EmptyListProxyless ==
    emptyProxyList =>
        /\ lpc = "polling"
        /\ \A i \in 1..Len(fetchLog) : fetchLog[i] = null

\* C17 (amended): when getProxies returns an empty list and NO_PROXY is
\* off, launchAlgorithm logs an error and returns before creating the
\* timer: no tick, no fetch, no strategy and no broker call ever happens.
\* Proxyless polling exists only under NO_PROXY, where the list is not
\* requested at all.
C17_EmptyListExits ==
    /\ emptyProxyList =>
          /\ lpc = "exited" /\ ~timerActive
          /\ ticks = 0 /\ fetchLog = <<>> /\ inflight = {}
          /\ execCount = 0 /\ spc = "idle" /\ calls = <<>>
    /\ (mode = "live" /\ cfg.NO_PROXY) => (proxies = 0 /\ lpc # "exited")

\* launchAlgorithm has returned on the empty list
C17_Witness == emptyProxyList /\ lpc = "exited" /\ ~timerActive

\* every fetch so far has failed (returned null) and none is pending
allFetchesFailed ==
    /\ mode = "live" /\ lpc = "polling"
    /\ Len(fetchLog) >= 1 /\ inflight = {} /\ nonNull = 0

qualifies(e) ==
    /\ offsetOf(e.eventId) # 0
    /\ ~deadZone(eventLeverage(e, offsetOf(e.eventId)))

\* the Results are those of the iterations that traded, in event order
resultsFollowLog ==
    /\ Len(results) = Len(trades) /\ Len(trades) <= Len(log)
    /\ \A k \in 1..Len(results) :
          /\ results[k].entryTime = trades[k].event.dateUtc
          /\ results[k].event = trades[k].event.name

\* C19: after backtest the result list holds at most one TradeResult per
\* event, in event order: exactly one for each qualifying event (configured
\* offset, leverage magnitude >= 1) and none for an event in the dead zone,
\* with a null actual or without a configured offset.
C19_OneResultPerQualifying ==
    mode = "backtest" =>
        /\ resultsFollowLog
        /\ \A i \in 1..Len(log) :
              /\ ~isSkip(log[i]) <=> qualifies(log[i].event)
              /\ log[i].event.actual.isNull => isSkip(log[i])

\* C20: every TradeResult emitted by backtest has exitTime >= entryTime, and
\* its entryPrice is the open of the first bar in the file whose timestamp is
\* at or after the event's release time.
C20_EntryAtFirstBar ==
    mode = "backtest" =>
        \A k \in 1..Len(results) :
            /\ results[k].exitTime >= results[k].entryTime
            /\ firstAtOrAfter(file, trades[k].event.dateUtc) # 0
            /\ results[k].entryPrice =
                   toFixed2(barAt(file, firstAtOrAfter(file, trades[k].event.dateUtc)).open
                            * 10000)

\* the broker calls of run i of the fixed-band strategy
callsOfRun(i) == SelectSeq(calls, LAMBDA c : c.run = i)

bandOpensOf(cs) == SelectSeq(cs, LAMBDA c : c.op # "initQuantfury")

\* C21: the fixed-band strategy opens a position of size AMOUNT iff the
\* value differs from the threshold by strictly more than the band (0.1 for
\* CPI, 0.2 for GDP and PCE); a value on or inside the band causes no broker
\* call; CPI and PCE above -> SHORT, below -> LONG; GDP below -> SHORT, above
\* -> LONG; at most one open call is made per invocation.
C21_FixedBand ==
    mode = "band" =>
        \A i \in 1..Len(runs) :
            /\ runs[i].side # "none" <=>
                    Abs(runs[i].value - cfg.ind.threshold) > cfg.ind.band
            /\ runs[i].side = "none" => callsOfRun(i) = <<>>
            /\ runs[i].side = "short" <=>
                    IF cfg.ind.name = "GDP"
                    THEN runs[i].value < cfg.ind.threshold - cfg.ind.band
                    ELSE runs[i].value > cfg.ind.threshold + cfg.ind.band
            /\ Len(bandOpensOf(callsOfRun(i))) <= 1
            /\ runs[i].pc \in {"open", "done"} /\ runs[i].side # "none" =>
                    bandOpensOf(callsOfRun(i)) =
                        <<bandOpenCall(i, runs[i].side, cfg.amt.AMOUNT)>>

\* C24: in the launchAlgorithm variant that tests strategy_executed only
\* at the start of a tick, executeStrategyFunction is invoked at most once,
\* also when two ticks have fetches in flight that both return a value.
C24_FlagAlone == mode = "band" => execCount <= 1 /\ Len(runs) <= 1

\* C25: ticks of the live loop do not overlap: no tick calls
\* checkValueFunction while the fetch of an earlier tick, or the trade
\* sequence it started, is still pending; at most one fetch is in flight.
C25_NoOverlap ==
    mode = "live" =>
        /\ Cardinality(inflight) <= 1
        /\ inflight # {} => spc \in {"idle", "done", "threw"}

\* every HTTP step of the call was answered 200 with a body carrying `data`
allRepliesOk ==
    /\ mode = "adapter" /\ ret # NotReturned
    /\ ~call.NO_TRADING /\ ~call.hasPriceId
    /\ call.options.status = 200 /\ call.post.status = 200 /\ call.post.hasData
    /\ call.op \in MarketOps =>
          /\ call.priceOptions.status = 200
          /\ call.pricePost.status = 200 /\ call.pricePost.hasData

\* C22: on an HTTP 200 reply openMarketLongPosition, openMarketShortPosition,
\* the extended open variants, closePosition, reducePosition and getPositions
\* return the `data` field of the reply body, not an error value; for the
\* open calls a current-price request precedes the open request.
C22_ReturnsDataField ==
    (allRepliesOk /\ call.op \in MarketOps \cup {"closePosition", "reducePosition",
                                                 "getPositions"}) =>
        /\ ret.value = "data"
        /\ call.op \in MarketOps =>
              \E i, j \in 1..Len(requests) :
                  /\ i < j
                  /\ requests[i] = Post("price")
                  /\ requests[j] = Post("positions/open")

\* C23: a TradeResult written to backtest_results.json with JSON.stringify
\* and read back with JSON.parse equals the original field for field (event,
\* entryTime, exitTime, action, entryPrice, exitPrice, profitOrLoss,
\* amountBTC), the type of the time fields included.
C23_RoundTrip ==
    (mode = "backtest" /\ reread.read) =>
        /\ Len(reread.results) = Len(results)
        /\ \A k \in 1..Len(results) :
              \A name \in DOMAIN jsResult(results[k]) :
                  /\ reread.results[k][name].type = jsResult(results[k])[name].type
                  /\ reread.results[k][name].v = jsResult(results[k])[name].v

\* some bar examined for trade `it` up to bar j crossed returnThreshold in
\* the favourable direction
crossedBy(it, j) == \E h \in barsOf(it) : h <= j /\ touchesRT(it, barAt(file, h))

\* C26: once secondsSinceEntry >= 10, a position that is still open (and not
\* closed by take-profit or stop-loss on that bar) is closed for no movement,
\* at the bar's close and flagged, iff the price has not crossed
\* returnThreshold in the favourable direction at any bar since entry; a
\* position whose price crossed returnThreshold on an earlier bar is never
\* closed with the no-movement flag.
C26_NoMovementSinceEntry ==
    mode = "backtest" =>
        /\ Len(results) = Len(trades)
        /\ \A k \in 1..Len(trades) :
             LET it == trades[k] IN
             /\ \A j \in barsOf(it) :
                  (/\ openAt(it, j)
                   /\ barAt(file, j).ts - it.event.dateUtc >= GRACE_MS
                   /\ ~touchesTP(it, barAt(file, j))
                   /\ ~touchesSL(it, barAt(file, j)))
                  => ((it.exit = "nomove" /\ it.exitIdx = j) <=> ~crossedBy(it, j))
             /\ it.exit = "nomove" =>
                  /\ ~crossedBy(it, it.exitIdx)
                  /\ results[k].exitPrice = barAt(file, it.exitIdx).close
             /\ (it.exit # "nomove") =>
                  results[k].action \in {"buy", "sell"}

\* the first examined bar at least 1500 s after the event (0: none)
maxHoldBar(it) ==
    IF \E j \in barsOf(it) : barAt(file, j).ts - it.event.dateUtc >= MAX_HOLD_MS
    THEN CHOOSE j \in barsOf(it) :
            /\ barAt(file, j).ts - it.event.dateUtc >= MAX_HOLD_MS
            /\ \A h \in barsOf(it) : h < j => barAt(file, h).ts - it.event.dateUtc < MAX_HOLD_MS
    ELSE 0

terminalOf(exit) ==
    IF exit = "tp" THEN "TookProfit"
    ELSE IF exit = "sl" THEN "StoppedOut"
    ELSE IF exit = "nomove" THEN "TimedOutNoMovement"
    ELSE IF exit = "maxhold" THEN "TimedOutMaxHold"
    ELSE "Open"

\* C28: a simulated trade goes AwaitingEntry -> Open -> one of TookProfit,
\* StoppedOut, TimedOutNoMovement, TimedOutMaxHold: every TradeResult is the
\* outcome of an exit rule firing on some examined bar (whose timestamp is
\* its exitTime), and no TradeResult is recorded for a position whose bars
\* ended without any exit rule firing.
C28_ResultIsTerminal ==
    mode = "backtest" =>
        /\ Len(results) = Len(trades)
        /\ \A k \in 1..Len(trades) :
             /\ terminalOf(trades[k].exit) \in
                    {"TookProfit", "StoppedOut", "TimedOutNoMovement", "TimedOutMaxHold"}
             /\ trades[k].exitIdx \in barsOf(trades[k])
             /\ results[k].exitTime = barAt(file, trades[k].exitIdx).ts

\* no bar examined before bar j touched the take-profit or the stop-loss level
untouchedBefore(it, j) ==
    \A h \in barsOf(it) : h < j =>
        ~touchesTP(it, barAt(file, h)) /\ ~touchesSL(it, barAt(file, h))

\* the levels computed for trade `it` are those of the claim, and so are
\* those of a short entered at 60000
levelsAsStated(it) ==
    /\ takeProfitPrice(it.leverage, it.entryPrice) = tpLevel(it)
    /\ stopLossPrice(it.leverage, it.entryPrice) = slLevel(it)
    /\ returnThreshold(it.leverage, it.entryPrice) = rtLevel(it)
    /\ stopLossPrice(-1, 60000) = 60120 * 10000
    /\ takeProfitPrice(-1, 60000) = 58800 * 10000

\* trade k took profit on bar j, at exactly the take-profit level
tookProfitAt(k, j) ==
    /\ trades[k].exit = "tp" /\ trades[k].exitIdx = j
    /\ trades[k].exitPrice = tpLevel(trades[k])
    /\ results[k].exitPrice = toFixed2(tpLevel(trades[k]))
    /\ results[k].exitTime = barAt(file, j).ts

\* C29 as stated: for a long takeProfitPrice = entryPrice x 1.02,
\* stopLossPrice = entryPrice x 0.998, returnThreshold = entryPrice x 1.0015,
\* mirrored for a short (entry 60000: stop 60120, target 58800); for a short
\* the first bar with low <= takeProfitPrice whose predecessors touched
\* neither level exits as TookProfit at exactly takeProfitPrice.
C29_FirstTouchTakesProfit ==
    mode = "backtest" =>
        /\ Len(results) = Len(trades)
        /\ \A k \in 1..Len(trades) :
             /\ levelsAsStated(trades[k])
             /\ trades[k].leverage < 0 =>
                  \A j \in barsOf(trades[k]) :
                      (touchesTP(trades[k], barAt(file, j)) /\ untouchedBefore(trades[k], j))
                      => tookProfitAt(k, j)

\* C29 amended: the same levels; for a short the first bar with
\* low <= takeProfitPrice whose predecessors touched neither level exits as
\* TookProfit at exactly takeProfitPrice, provided no timeout rule (no
\* movement, maximum hold) closed the position on an earlier bar.
C29_ExitLevels ==
    mode = "backtest" =>
        /\ Len(results) = Len(trades)
        /\ \A k \in 1..Len(trades) :
             /\ levelsAsStated(trades[k])
             /\ trades[k].leverage < 0 =>
                  \A j \in barsOf(trades[k]) :
                      (/\ touchesTP(trades[k], barAt(file, j))
                       /\ untouchedBefore(trades[k], j)
                       /\ openAt(trades[k], j))
                      => tookProfitAt(k, j)

\* a short took profit on the bar after its entry bar, which touched
\* neither level
C29_Witness ==
    /\ mode = "backtest"
    /\ \E k \in 1..Len(trades) :
         /\ trades[k].leverage < 0
         /\ trades[k].exitIdx > trades[k].rel
         /\ untouchedBefore(trades[k], trades[k].exitIdx)
         /\ tookProfitAt(k, trades[k].exitIdx)

\* C30: the position size is AMOUNT x |leverage| / entryPrice and
\* profitOrLoss is (exitPrice - entryPrice) x size for a long and
\* (entryPrice - exitPrice) x size for a short, so that a TookProfit exit
\* always records a strictly positive and a StoppedOut exit a strictly
\* negative profitOrLoss, in both directions.
C30_ProfitSign ==
    mode = "backtest" =>
        /\ Len(results) = Len(trades)
        /\ \A k \in 1..Len(trades) :
             LET it == trades[k] IN
             /\ results[k].amountBTC =
                    [notional |-> BT_AMOUNT * Abs(it.leverage), entry |-> it.entryPrice]
             /\ results[k].profitOrLoss =
                    [diff |-> IF it.leverage > 0
                              THEN it.exitPrice - it.entryPrice * 10000
                              ELSE it.entryPrice * 10000 - it.exitPrice,
                     notional |-> results[k].amountBTC.notional,
                     entry |-> results[k].amountBTC.entry]
             /\ it.exit = "tp" => profitOrLossCents(results[k].profitOrLoss) > 0
             /\ it.exit = "sl" => profitOrLossCents(results[k].profitOrLoss) < 0

\* of two trades one is a long that took profit, the other a short that was
\* stopped out, with profits of +2% and -0.2% of the notional
C30_Witness ==
    /\ mode = "backtest"
    /\ \E k \in 1..Len(trades) :
         /\ trades[k].leverage < 0 /\ trades[k].exit = "sl"
         /\ profitOrLossCents(results[k].profitOrLoss) = -(BT_AMOUNT \div 100) * 20 * Abs(trades[k].leverage)
    /\ \E k \in 1..Len(trades) :
         /\ trades[k].leverage > 0 /\ trades[k].exit = "tp"
         /\ profitOrLossCents(results[k].profitOrLoss) = (BT_AMOUNT \div 100) * 200 * Abs(trades[k].leverage)

\* the iterations that streamed the price file
streamed(it) == it.exit # "skip:precedes"

\* the first record from `first` on whose timestamp equals t (0: none)
exactFrom(f, first, t) ==
    IF \E j \in first..f.n : barAt(f, j).ts = t
    THEN CHOOSE j \in first..f.n :
            /\ barAt(f, j).ts = t
            /\ \A h \in first..(j - 1) : barAt(f, h).ts # t
    ELSE 0

\* record j triggers the stop condition for the entry price of record e
triggers(f, j, e) == stopCondition(barAt(f, j), barAt(f, e).open)

\* C31: loadPricesFromPosition returns the records from startOffset in file
\* order up to and including the first record for which
\* stopCondition(bar, entryPrice) is true, entryPrice being the open of the
\* first record whose timestamp equals entryTime exactly; the condition is
\* never evaluated before such a record was read; no record after the
\* triggering one is included; if no record matches entryTime or the
\* condition never holds, every record to the end of the file is returned.
C31_BarStream ==
    mode = "backtest" =>
        \A i \in 1..Len(log) :
            LET it == log[i]
                e == exactFrom(file, it.first, it.event.dateUtc)
            IN  streamed(it) =>
                /\ it.first = firstRecordFrom(file, it.startPosition)
                /\ it.last <= file.n
                /\ e = 0 => it.last = file.n
                /\ e # 0 =>
                     /\ it.last >= e
                     /\ \A j \in e..(it.last - 1) : ~triggers(file, j, e)
                     /\ it.last < file.n => triggers(file, it.last, e)
                     /\ (\A j \in e..file.n : ~triggers(file, j, e)) => it.last = file.n

\* one stream stopped on a record after the entry record, before the end
\* of the file; another found no record at the entry time and ran to the end
C31_Witness ==
    /\ mode = "backtest"
    /\ \E i \in 1..Len(log) :
         LET e == exactFrom(file, log[i].first, log[i].event.dateUtc) IN
         /\ streamed(log[i]) /\ e # 0
         /\ log[i].last > e /\ log[i].last < file.n
         /\ triggers(file, log[i].last, e)
    /\ \E i \in 1..Len(log) :
         /\ streamed(log[i])
         /\ exactFrom(file, log[i].first, log[i].event.dateUtc) = 0
         /\ log[i].first <= file.n /\ log[i].last = file.n

\* the iterations of the backtest that computed a leverage
decided(it) == ~isSkip(it) \/ it.exit = "skip:deadZone"

\* the amounts of a live run are those of the backtest
sameAmounts == cfg.amt = [AMOUNT |-> BT_AMOUNT, MAX_AMOUNT |-> BT_MAX_AMOUNT]

\* C32: the live and the backtest decision function are the same function:
\* for every (value, threshold, offset) with inverse direction and equal
\* AMOUNT / MAX_AMOUNT, executeTradingStrategy and the backtest loop compute
\* the same signed integer leverage and so the same trade / no-trade
\* decision, the same direction and the same notional AMOUNT x |leverage|.
C32_SameDecision ==
    /\ mode = "backtest" =>
          /\ Len(results) = Len(trades)
          /\ \A i \in 1..Len(log) :
                decided(log[i]) =>
                    /\ log[i].leverage =
                          computeLeverage(valueOf(log[i]), log[i].event.consensus,
                                          offsetOf(log[i].event.eventId), FALSE,
                                          BT_AMOUNT, BT_MAX_AMOUNT)
                    /\ isSkip(log[i]) <=> deadZone(log[i].leverage)
          /\ \A k \in 1..Len(trades) :
                /\ results[k].amountBTC.notional =
                      openCall(trades[k].leverage, BT_AMOUNT).amount
                /\ (results[k].action \in {"sell", "sell (closed due to no movement)"})
                      <=> openCall(trades[k].leverage, BT_AMOUNT).op = "openMarketShortPosition"
    /\ (strategyStarted /\ ~cfg.ind.direction /\ sameAmounts) =>
          /\ strat.leverage =
                backtestLeverage(strat.value, cfg.ind.threshold, cfg.ind.offset)
          /\ (spc = "done" /\ calls = <<>>) <=> deadZone(strat.leverage)
          /\ Len(calls) >= 2 =>
                /\ calls[2].amount = BT_AMOUNT * Abs(strat.leverage)
                /\ (calls[2].op = "openMarketShortPosition") <=> ~(strat.leverage > 0)

\* a backtest that skipped one event in the dead zone although its value
\* differs from the consensus, and traded another at the clamped leverage
C32_Witness ==
    /\ mode = "backtest"
    /\ \E i \in 1..Len(log) :
         /\ log[i].exit = "skip:deadZone"
         /\ valueOf(log[i]) # log[i].event.consensus
    /\ \E k \in 1..Len(trades) :
         /\ Abs(trades[k].leverage) = 5
         /\ Abs(valueOf(trades[k]) - trades[k].event.consensus)
                > 5 * offsetOf(trades[k].event.eventId)

\* the target lies within the time range of the file
inRange(f, t) == f.n > 0 /\ barAt(f, 1).ts <= t /\ t <= barAt(f, f.n).ts

\* C33: binarySearchCSV never returns an offset beyond the first record
\* whose timestamp is >= target: for a target within the file's time range
\* that record lies at or after the returned offset, so that streaming from
\* the returned offset includes the entry bar, also when the record
\* straddles a 50,000-byte window boundary or is the discarded first or last
\* partial line of a probe window.
C33_NeverBeyond ==
    mode = "backtest" =>
        \A i \in 1..Len(log) :
            inRange(file, log[i].event.dateUtc) =>
                /\ log[i].startPosition <=
                      RecStart(file, firstAtOrAfter(file, log[i].event.dateUtc))
                /\ streamed(log[i]) =>
                      /\ log[i].first <= firstAtOrAfter(file, log[i].event.dateUtc)
                      /\ firstAtOrAfter(file, log[i].event.dateUtc) <= log[i].last

\* the states of the search loop run for the event of iteration `it`
runOf(it) ==
    searchRun(file, it.event.dateUtc,
              [start |-> 0, end |-> fileSize(file), foundPosition |-> -1], MaxSearchSteps)

\* from state a to state b exactly one of the two ends of the range moved
\* inwards
progress(a, b) ==
    \/ b.end < a.end /\ b.start = a.start
    \/ b.start > a.start /\ b.end = a.end

\* C34: the binary-search loop of binarySearchCSV terminates for every file
\* size (an empty file and files smaller than one window included) and
\* every target: each iteration strictly decreases end or strictly
\* increases start until start > end.
C34_SearchTerminates ==
    mode = "backtest" =>
        \A i \in 1..Len(log) : \A run \in {runOf(log[i])} :
            /\ lastOf(run).start > lastOf(run).end
            /\ Len(run) <= MaxSearchSteps
            /\ \A j \in 1..(Len(run) - 1) :
                  /\ run[j].start <= run[j].end
                  /\ progress(run[j], run[j + 1])
            /\ log[i].startPosition = returnedPosition(file, lastOf(run).foundPosition)

\* a search over several windows that moved both ends
C34_Witness ==
    /\ mode = "backtest"
    /\ fileSize(file) > 2 * chunkSize
    /\ \E i \in 1..Len(log) : \E run \in {runOf(log[i])} :
         /\ Len(run) >= 3
         /\ lastOf(run).start > lastOf(run).end
         /\ \E j \in 1..(Len(run) - 1) : run[j + 1].end < run[j].end
         /\ \E j \in 1..(Len(run) - 1) : run[j + 1].start > run[j].start

\* the search of an empty file ended after one iteration
C34_WitnessEmpty ==
    /\ mode = "backtest" /\ fileSize(file) = 0
    /\ \E i \in 1..Len(log) : Len(runOf(log[i])) = 2

\* the amounts passed to openMarketLongPosition / openMarketShortPosition
openedAmounts == { opensOf(calls)[i].amount : i \in 1..Len(opensOf(calls)) }

between(a, x, b) == (a <= x /\ x <= b) \/ (b <= x /\ x <= a)

\* C36: for every Result the simulator produces the exit price lies between
\* stopLossPrice and takeProfitPrice inclusive, so that before rounding
\* -AMOUNT x |leverage| x 0.002 <= profitOrLoss <= AMOUNT x |leverage| x 0.02,
\* and an exit at a bar's close on a timeout loses less than a stop-out.
C36_BoundedOutcome ==
    mode = "backtest" =>
        /\ Len(results) = Len(trades)
        /\ \A k \in 1..Len(trades) :
              /\ between(stopLossPrice(trades[k].leverage, trades[k].entryPrice),
                         trades[k].exitPrice,
                         takeProfitPrice(trades[k].leverage, trades[k].entryPrice))
              /\ results[k].profitOrLoss.diff
                    >= -(BT_STOP_LOSS_E4 * results[k].profitOrLoss.entry)
              /\ results[k].profitOrLoss.diff
                    <= BT_TAKE_PROFIT_E4 * results[k].profitOrLoss.entry
              /\ results[k].profitOrLoss.notional = BT_AMOUNT * Abs(trades[k].leverage)
              /\ trades[k].exit \in {"nomove", "maxhold"} =>
                    results[k].profitOrLoss.diff
                        > -(BT_STOP_LOSS_E4 * results[k].profitOrLoss.entry)

\* a position closed on a timeout at a close below the entry, and one
\* stopped out
C36_Witness ==
    /\ mode = "backtest" /\ Len(results) = Len(trades)
    /\ \E k \in 1..Len(trades) :
         /\ trades[k].exit \in {"nomove", "maxhold"}
         /\ results[k].profitOrLoss.diff < 0
    /\ \E k \in 1..Len(trades) : trades[k].exit = "sl"

\* the strategy is over after a failure: the open call returned an error, or
\* addTakeProfitStopLoss threw
strategyFailed ==
    /\ mode = "live"
    /\ \/ spc = "threw"
       \/ spc = "done" /\ opensOf(calls) # <<>> /\ position = NoPosition

\* C37: launchAlgorithm sets strategy_executed and cancels the timer before
\* it awaits executeStrategyFunction: once a non-null value has been
\* observed the strategy is never invoked again and no further fetch is
\* started, also after the strategy returned on a broker error or threw.
C37_NoReattempt ==
    [][(mode = "live" /\ nonNull >= 1) =>
          /\ strategy_executed /\ ~timerActive /\ execCount = 1
          /\ execCount' = execCount
          /\ fetchLog' = fetchLog
          /\ strategy_executed' /\ ~timerActive'
          /\ (strategyFailed => strategyFailed' /\ calls' = calls)]_vars

\* after the open call was refused a fetch that was still pending returned
\* a second value
C37_Witness ==
    /\ strategyFailed /\ spc = "done" /\ lpc = "polling"
    /\ nonNull >= 2 /\ execCount = 1 /\ inflight = {}

\* the same after addTakeProfitStopLoss threw and the process lived on
C37_WitnessThrew ==
    /\ strategyFailed /\ spc = "threw" /\ lpc = "polling"
    /\ nonNull >= 2 /\ execCount = 1

\* the requests that open a position
openingRequests ==
    { i \in 1..Len(requests) :
        requests[i].url \in {"positions/open", "limitOrder/create"} }

\* C38: when NO_TRADING is set, openMarketPosition (through its long, short
\* and extended wrappers) and openLimitPosition return the error value
\* 'Trading is disabled' without any HTTP request (no price fetch, no
\* OPTIONS, no POST): no position is opened through the adapter.
C38_TradingDisabled ==
    (mode = "adapter" /\ call.NO_TRADING /\ ret # NotReturned) =>
        /\ call.op \in MarketOps \cup LimitOps
        /\ ret.kind = "error" /\ ret.error = "Trading is disabled"
        /\ requests = <<>>
        /\ openingRequests = {}

\* a market order without a price id, refused while the price service was
\* down
C38_Witness ==
    /\ mode = "adapter" /\ call.NO_TRADING /\ ret # NotReturned
    /\ call.op = "openExtendedMarketShortPosition" /\ ~call.hasPriceId
    /\ call.priceOptions.status = 0
    /\ ret.error = "Trading is disabled" /\ requests = <<>>

\* the responses other than the one of the request that triggered the
\* operation
others == { i \in 1..Len(responses) : ~responses[i].own }

\* C39: over any sequence and interleaving of handlePrice requests
\* executeTradingOperation is called at most once; while it is pending every
\* other request is answered 'Operation in progress'; after it succeeded or
\* threw every later request is answered no_action and opens no position;
\* and a request with an invalid price object never changes lastPrice (so
\* lastPrice is null or a valid price).
C39_PricePush ==
    mode = "push" =>
        /\ opCalls <= 1 /\ opens <= 1
        /\ \A i \in others :
              /\ responses[i].phase = "pending" =>
                    responses[i].message = "Operation in progress"
              /\ responses[i].phase = "after" => responses[i].status = "no_action"
        /\ lastPrice.isNull \/ isValidPrice(lastPrice)

\* the statements of C39 other than the one about lastPrice
pushOnceOnly ==
    mode = "push" =>
        /\ opCalls <= 1 /\ opens <= 1
        /\ \A i \in others :
              /\ responses[i].phase = "pending" =>
                    responses[i].message = "Operation in progress"
              /\ responses[i].phase = "after" => responses[i].status = "no_action"

====
